---- MODULE Spec2Model ----
(***************************************************************************)
(* ProGuardian: a model of the security boundary of the CLI.               *)
(*                                                                         *)
(*   SpecPath   validateSafePath (src/utils/validation.js) as a function   *)
(*              of character sequences, with path.resolve/path.normalize   *)
(*              computed the way the POSIX implementation computes them.   *)
(*   SpecWrite  secureWriteFile (utils/file-security.js) step by step,     *)
(*              with a concurrent reader of the target and failure         *)
(*              injection at every filesystem call.                        *)
(*   SpecWrap   the claude/gemini wrappers (src/wrapper/*.js): argument    *)
(*              check, context-file augmentation, spawn, child events.     *)
(*   SpecRead   secureReadFile and its size limit.                         *)
(*   SpecErr    sanitizeErrorMessage, SecurityError and handleError.       *)
(*   SpecCopy   secureCopyFile and the steps of fs.copy.                   *)
(*   SpecJSON   secureWriteJSON / secureReadJSON.                          *)
(*   SpecInit   initCommand (src/commands/init.js) step by step.           *)
(*   SpecCmd    validateCommand (src/utils/validation.js).                 *)
(*   SpecOps    the argument validation of every secure file operation.    *)
(*   SpecInstall  installWrapper (src/commands/install-wrapper.js).        *)
(*   SpecUpdate   checkForUpdates (src/utils/version-check.js).            *)
(*                                                                         *)
(* Strings are sequences of one-character strings.                         *)
(***************************************************************************)
EXTENDS Integers, Sequences, FiniteSets, TLC

VARIABLES
    \* ---- SpecPath: one call of validateSafePath
    targetPath,     \* the raw input
    basePath,       \* the base directory (an absolute path)
    pathResult,     \* "pending" before the call, then what the call produced
    \* ---- SpecWrite: one call of secureWriteFile and the directory it acts on
    filePath,       \* raw path argument
    content,        \* the content to write (`new`)
    old,            \* what the target held when the call started (or NoFile)
    files,          \* the directory: name -> content or NoFile
    dirExists,      \* the parent directory exists
    dirWritable,    \* access(dir, W_OK) succeeds
    fileWritable,   \* access(target, W_OK) succeeds
    tmpPath,        \* the temp sibling chosen by this call (0: none yet)
    written,        \* how many bytes fs.writeFile has put into the temp file
    wpc,            \* position of the call
    werror,         \* the error the call threw ("none" if none)
    observed,       \* what the concurrent reader last read from the target
    \* ---- SpecWrap: one invocation of a wrapper
    cli,            \* "claude" or "gemini": which wrapper runs
    markerExists,   \* .proguardian is in the working directory
    contextExists,  \* CLAUDE.md / GEMINI.md is in the working directory
    args,           \* process.argv.slice(2)
    spawnCalls,     \* the spawn calls issued: <<[file, args, shell]>>
    fate,           \* what happens to the child
    emitted,        \* the child events observed by the wrapper, in order
    alive,          \* the wrapper process has not exited
    exitCode,       \* the code the wrapper exited with (NoCode while alive)
    terminal,       \* the terminal states entered, in order
    rpc,            \* position of the wrapper
    \* ---- SpecRead: one call of secureReadFile (on filePath, in files)
    maxSize,        \* options.maxSize
    fileReadable,   \* access(file, R_OK) succeeds
    statSize,       \* stats.size as fs.stat reported it (NoSize before)
    readCalls,      \* how many times fs.readFile was called
    rdpc,           \* position of the call
    rdResult,       \* what the call returned or threw
    \* ---- SpecCopy: one call of secureCopyFile (destination: filePath, files)
    source,         \* raw source path
    overwrite,      \* options.overwrite
    sourceExists,   \* the source is on disk (its bytes: content)
    sourceReadable, \* access(source, R_OK) succeeds
    cpc,            \* position of the call
    cerror,         \* the error the call threw
    \* ---- SpecJSON: secureWriteJSON followed by secureReadJSON
    data,           \* the value handed to secureWriteJSON
    jpc,            \* position of the round trip
    jResult,        \* what secureReadJSON returned or what was thrown
    \* ---- SpecErr: one error constructed from a raw message
    message,        \* the raw message
    errorMessage,   \* error.message of the constructed error
    printed,        \* what handleError wrote to the console
    \* ---- SpecInit: runs of initCommand on one working directory
    force,          \* options.force of the current run
    cliOption,      \* options.cli ("none": not given)
    available,      \* which CLIs `which` finds on the search path
    cliType,        \* what determineCLI returned ("none": null)
    contextFile,    \* CLAUDE.md / GEMINI.md of the working directory
    markerFile,     \* .proguardian of the working directory
    startContext,   \* the context file before the first run
    preContext,     \* the context file when the current run started
    preMarker,      \* the marker record when the current run started
    existingContent, \* the local existingContent of the current run
    ipc,            \* position of the current run
    reports,        \* what the current run has logged
    wrote,          \* the writes the current run has completed, in order
    runs,           \* how many runs have started
    \* ---- SpecCmd: one call of validateCommand
    command,        \* the argument
    cmdResult,      \* what the call returned or threw
    \* ---- SpecOps: one call of one secure file operation
    op,             \* which operation is called
    opPath,         \* its path argument (the destination, for a copy)
    opSource,       \* the source argument of a copy
    callerBase,     \* the base the caller resolved the path against
    pathOnDisk,     \* the path (as resolved) exists
    permitted,      \* fs.access succeeds on what the operation probes
    fsCalls,        \* the filesystem calls made, in order, each with the
                    \* argument its path was derived from
    opResult,       \* what the call returned or threw
    \* ---- SpecInstall: one run of install-wrapper
    installCwd,     \* process.cwd() of the run
    found,          \* which CLIs `which` finds
    binWritable,    \* access(cliDir, W_OK) succeeds
    installForce,   \* options.force
    binFiles,       \* the CLI directory: name -> what the file is
    binStart,       \* the CLI directory before the run
    current,        \* the CLI installWrapperForCLI is working on
    installed,      \* claudeInstalled / geminiInstalled
    instReports,    \* what the run has logged
    instpc,         \* position of the run
    \* ---- SpecUpdate: calls of checkForUpdates over time
    now,            \* Date.now(), in hours
    latest,         \* dist-tags.latest of the registry
    cache,          \* the cache file
    cached,         \* the cache as the current call read it
    fetched,        \* dist-tags.latest as the current call fetched it
    shown,          \* the notifications shown, in order
    requests,       \* how many times the registry was contacted
    calls,          \* how many calls have started
    upc             \* position of the current call

pathVars == <<targetPath, basePath, pathResult>>
writeVars == <<filePath, content, old, files, dirExists, dirWritable,
               fileWritable, tmpPath, written, wpc, werror, observed>>
wrapVars == <<cli, markerExists, contextExists, args, spawnCalls, fate,
              emitted, alive, exitCode, terminal, rpc>>
readVars == <<maxSize, fileReadable, statSize, readCalls, rdpc, rdResult>>
copyVars == <<source, overwrite, sourceExists, sourceReadable, cpc, cerror>>
jsonVars == <<data, jpc, jResult>>
errVars == <<message, errorMessage, printed>>
initVars == <<force, cliOption, available, cliType, contextFile, markerFile,
              startContext, preContext, preMarker, existingContent, ipc,
              reports, wrote, runs>>
coreVars == <<pathVars, writeVars, wrapVars, readVars, copyVars, jsonVars, errVars>>
cmdVars == <<command, cmdResult>>
opsVars == <<op, opPath, opSource, callerBase, pathOnDisk, permitted, fsCalls, opResult>>
instVars == <<installCwd, found, binWritable, installForce, binFiles, binStart, current,
              installed, instReports, instpc>>
updVars == <<now, latest, cache, cached, fetched, shown, requests, calls, upc>>
restVars == <<initVars, cmdVars, opsVars, instVars, updVars>>
vars == <<coreVars, restVars>>

----------------------------------------------------------------------------
(* Bounds *)

\* longest raw path fed to validateSafePath
MaxLen == 4
\* longest file content, in bytes
MaxContent == 2
\* how many distinct random suffixes crypto.randomBytes can produce
NSuffix == 2
\* longest argument list handed to a wrapper
MaxArgs == 2
\* largest exit code the child reports
MaxExitCode == 2

----------------------------------------------------------------------------
(* Strings *)

SLASH == "/"
DOT == "."
NUL == "NUL"
\* the backslash and the backtick, by name
BACKSLASH == "BACKSLASH"
BACKTICK == "BACKTICK"

startsWith(s, p) ==
    /\ Len(p) <= Len(s)
    /\ SubSeq(s, 1, Len(p)) = p

includes(s, p) ==
    \E i \in 1..(Len(s) - Len(p) + 1) : SubSeq(s, i, i + Len(p) - 1) = p

\* s.split('/'): the segments between separators (always at least one)
RECURSIVE Split(_)
Split(s) ==
    IF \A i \in 1..Len(s) : s[i] # SLASH THEN <<s>>
    ELSE LET i == CHOOSE k \in 1..Len(s) :
                      s[k] = SLASH /\ \A j \in 1..(k - 1) : s[j] # SLASH
         IN <<SubSeq(s, 1, i - 1)>> \o Split(SubSeq(s, i + 1, Len(s)))

\* segs.join('/')
RECURSIVE Join(_)
Join(segs) ==
    IF Len(segs) = 0 THEN <<>>
    ELSE IF Len(segs) = 1 THEN segs[1]
    ELSE segs[1] \o <<SLASH>> \o Join(Tail(segs))

DOTDOT == <<DOT, DOT>>

\* path.normalize's / path.resolve's inner loop on the segments of a path:
\* empty and "." segments are dropped, ".." removes the segment before it
\* (or is kept, above the root of a relative path), anything else is kept.
RECURSIVE normalizeSegs(_, _, _)
normalizeSegs(segs, res, allowAboveRoot) ==
    IF Len(segs) = 0 THEN res
    ELSE LET seg == Head(segs)
             rest == Tail(segs)
         IN IF seg = <<>> \/ seg = <<DOT>>
                THEN normalizeSegs(rest, res, allowAboveRoot)
            ELSE IF seg = DOTDOT
                THEN IF Len(res) > 0 /\ res[Len(res)] # DOTDOT
                         THEN normalizeSegs(rest, SubSeq(res, 1, Len(res) - 1),
                                            allowAboveRoot)
                     ELSE IF allowAboveRoot
                         THEN normalizeSegs(rest, Append(res, DOTDOT), allowAboveRoot)
                     ELSE normalizeSegs(rest, res, allowAboveRoot)
            ELSE normalizeSegs(rest, Append(res, seg), allowAboveRoot)

normalizeString(p, allowAboveRoot) ==
    Join(normalizeSegs(Split(p), <<>>, allowAboveRoot))

isAbsolute(p) == Len(p) > 0 /\ p[1] = SLASH

\* path.normalize(p) (POSIX)
normalize(p) ==
    IF Len(p) = 0 THEN <<DOT>>
    ELSE LET trailingSeparator == p[Len(p)] = SLASH
             n == normalizeString(p, ~isAbsolute(p))
         IN IF Len(n) = 0
                THEN IF isAbsolute(p) THEN <<SLASH>>
                     ELSE IF trailingSeparator THEN <<DOT, SLASH>> ELSE <<DOT>>
            ELSE (IF isAbsolute(p) THEN <<SLASH>> ELSE <<>>)
                 \o n
                 \o (IF trailingSeparator THEN <<SLASH>> ELSE <<>>)

\* path.resolve(base, target) (POSIX) for an absolute base: the rightmost
\* absolute argument wins, empty arguments are skipped, the result is
\* normalized and carries no trailing separator.
resolve(base, target) ==
    LET joined == IF isAbsolute(target) THEN target
                  ELSE IF Len(target) = 0 THEN base
                  ELSE base \o <<SLASH>> \o target
    IN <<SLASH>> \o normalizeString(joined, FALSE)

----------------------------------------------------------------------------
(* validateSafePath *)

suspicious ==
    << <<DOT, DOT>>, <<DOT, SLASH>>, <<"~">>, <<"$">>, <<BACKTICK>>, <<"|">>,
       <<";">>, <<"&">>, <<">">>, <<"<">>, <<BACKSLASH>> >>

Thrown(kind) == [kind |-> kind, path |-> <<>>]
Returned(p) == [kind |-> "ok", path |-> p]

\* the blacklist scans path.normalize(targetPath)
ScannedText(targetPath_) == normalize(targetPath_)

\* the containment test is a plain string prefix test
WithinBase(resolvedTarget, resolvedBase) == startsWith(resolvedTarget, resolvedBase)

validateSafePath(targetPath_, basePath_) ==
    IF Len(targetPath_) = 0 THEN Thrown("ValidationError")
    ELSE LET resolvedTarget == resolve(basePath_, targetPath_)
             resolvedBase == resolve(basePath_, <<>>)
         IN IF ~WithinBase(resolvedTarget, resolvedBase)
                THEN Thrown("PathTraversalError")
            ELSE IF \E k \in 1..Len(suspicious) :
                        includes(ScannedText(targetPath_), suspicious[k])
                THEN Thrown("PathTraversalError")
            ELSE Returned(resolvedTarget)

----------------------------------------------------------------------------
(* Idle values: a specification leaves the other parts of the state at rest *)

\* a directory entry: a missing file, or a file and its bytes
NoFile == [exists |-> FALSE, data |-> <<>>]
File(bytes) == [exists |-> TRUE, data |-> bytes]
NoCode == "NoCode"
Pending == [kind |-> "pending", path |-> <<>>]

PathIdle ==
    /\ targetPath = <<>>
    /\ basePath = <<>>
    /\ pathResult = Pending

WriteIdle ==
    /\ filePath = <<>>
    /\ content = <<>>
    /\ old = NoFile
    /\ files = <<>>
    /\ dirExists = FALSE
    /\ dirWritable = FALSE
    /\ fileWritable = FALSE
    /\ tmpPath = 0
    /\ written = 0
    /\ wpc = "idle"
    /\ werror = "none"
    /\ observed = NoFile

WrapIdle ==
    /\ cli = "none"
    /\ markerExists = FALSE
    /\ contextExists = FALSE
    /\ args = <<>>
    /\ spawnCalls = <<>>
    /\ fate = [kind |-> "none"]
    /\ emitted = <<>>
    /\ alive = FALSE
    /\ exitCode = NoCode
    /\ terminal = <<>>
    /\ rpc = "idle"

NoSize == [known |-> FALSE, size |-> 0]
NoResult == [kind |-> "pending", data |-> <<>>]
NoError == [kind |-> "none", message |-> <<>>]
NoValue == [type |-> "none"]

ReadIdle ==
    /\ maxSize = 0
    /\ fileReadable = FALSE
    /\ statSize = NoSize
    /\ readCalls = 0
    /\ rdpc = "idle"
    /\ rdResult = NoResult

CopyIdle ==
    /\ source = <<>>
    /\ overwrite = FALSE
    /\ sourceExists = FALSE
    /\ sourceReadable = FALSE
    /\ cpc = "idle"
    /\ cerror = NoError

JsonIdle ==
    /\ data = NoValue
    /\ jpc = "idle"
    /\ jResult = NoResult

ErrIdle ==
    /\ message = <<>>
    /\ errorMessage = <<>>
    /\ printed = <<>>

\* no marker record on disk
NoMarker == [exists |-> FALSE, enhanced |-> FALSE, initialized |-> 0, cliType |-> "none"]
NoneAvailable == [claude |-> FALSE, gemini |-> FALSE]

InitIdle ==
    /\ force = FALSE
    /\ cliOption = "none"
    /\ available = NoneAvailable
    /\ cliType = "none"
    /\ contextFile = NoFile
    /\ markerFile = NoMarker
    /\ startContext = NoFile
    /\ preContext = NoFile
    /\ preMarker = NoMarker
    /\ existingContent = <<>>
    /\ ipc = "idle"
    /\ reports = {}
    /\ wrote = <<>>
    /\ runs = 0

CoreIdle ==
    /\ PathIdle /\ WriteIdle /\ WrapIdle /\ ReadIdle
    /\ CopyIdle /\ JsonIdle /\ ErrIdle

NoOutcome == [kind |-> "pending", value |-> <<>>]
CmdIdle ==
    /\ command = <<>>
    /\ cmdResult = NoOutcome

OpsIdle ==
    /\ op = "none"
    /\ opPath = <<>>
    /\ opSource = <<>>
    /\ callerBase = <<>>
    /\ pathOnDisk = FALSE
    /\ permitted = FALSE
    /\ fsCalls = <<>>
    /\ opResult = [kind |-> "pending", value |-> FALSE]

InstallIdle ==
    /\ installCwd = <<>>
    /\ found = NoneAvailable
    /\ binWritable = FALSE
    /\ installForce = FALSE
    /\ binFiles = <<>>
    /\ binStart = <<>>
    /\ current = "none"
    /\ installed = NoneAvailable
    /\ instReports = {}
    /\ instpc = "idle"

NoCache == [exists |-> FALSE, lastCheck |-> 0, latestVersion |-> <<>>, notified |-> <<>>]
UpdateIdle ==
    /\ now = 0
    /\ latest = <<>>
    /\ cache = NoCache
    /\ cached = NoCache
    /\ fetched = <<>>
    /\ shown = <<>>
    /\ requests = 0
    /\ calls = 0
    /\ upc = "idle"

RestIdle == InitIdle /\ CmdIdle /\ OpsIdle /\ InstallIdle /\ UpdateIdle

----------------------------------------------------------------------------
(* SpecPath: validateSafePath on every short input *)

CoreChars == {"a", SLASH, DOT}
SpecialChars == {"~", "$", BACKTICK, "|", ";", "&", ">", "<", BACKSLASH, NUL}

CoreStrings == UNION {[1..n -> CoreChars] : n \in 0..MaxLen}

\* every string over the core characters, and each of them with one
\* character replaced by a special character
Inputs ==
    CoreStrings \cup
    {[s EXCEPT ![i] = c] : s \in CoreStrings \ {<<>>}, i \in 1..MaxLen, c \in SpecialChars}

Bases == { <<SLASH, "a">>, <<SLASH, "a", SLASH, "a">> }

InitPath ==
    /\ targetPath \in Inputs
    /\ basePath \in Bases
    /\ pathResult = Pending
    /\ WriteIdle
    /\ WrapIdle
    /\ ReadIdle /\ CopyIdle /\ JsonIdle /\ ErrIdle /\ RestIdle

CallValidateSafePath ==
    /\ pathResult = Pending
    /\ pathResult' = validateSafePath(targetPath, basePath)
    /\ UNCHANGED <<targetPath, basePath, writeVars, wrapVars, readVars, copyVars,
                   jsonVars, errVars, restVars>>

NextPath == CallValidateSafePath

SpecPath == InitPath /\ [][NextPath]_vars

\* the resolved base directory and the resolved target of the call
ResolvedBase == resolve(basePath, <<>>)
ResolvedTarget == resolve(basePath, targetPath)

\* b is a or an ancestor of a, component by component
IsPrefixSeq(b, a) == Len(b) <= Len(a) /\ SubSeq(a, 1, Len(b)) = b
Components(p) == SelectSeq(Split(p), LAMBDA seg : seg # <<>>)
IsSelfOrDescendant(p, base) == IsPrefixSeq(Components(base), Components(p))

\* C3: every input that contains "..", a leading "~", "$", a backtick, "|",
\* ";", "&", ">", "<" or a backslash makes validateSafePath throw
\* PathTraversalError, whatever the base and wherever the input resolves to.
C3_Listed ==
    \/ includes(targetPath, DOTDOT)
    \/ (Len(targetPath) > 0 /\ targetPath[1] = "~")
    \/ \E c \in {"$", BACKTICK, "|", ";", "&", ">", "<", BACKSLASH} :
          includes(targetPath, <<c>>)
C3_BlacklistedInputThrows ==
    (pathResult # Pending /\ C3_Listed) => pathResult.kind = "PathTraversalError"

\* C4: a returned path is absolute and is the resolved base or a descendant of
\* it component by component; an input that resolves to a sibling which only
\* has the base as a string prefix is rejected with PathTraversalError.
C4_ReturnedPathInsideBase ==
    /\ pathResult.kind = "ok" =>
          /\ isAbsolute(pathResult.path)
          /\ IsSelfOrDescendant(pathResult.path, ResolvedBase)
    /\ (/\ pathResult # Pending
        /\ startsWith(ResolvedTarget, ResolvedBase)
        /\ ~IsSelfOrDescendant(ResolvedTarget, ResolvedBase))
          => pathResult.kind = "PathTraversalError"

\* C5: the blacklist is applied to the original input: an input that begins
\* with "./" or contains a NUL byte is rejected with PathTraversalError even
\* when it resolves inside the base directory.
C5_Listed ==
    \/ startsWith(targetPath, <<DOT, SLASH>>)
    \/ includes(targetPath, <<NUL>>)
C5_OriginalInputScanned ==
    (pathResult # Pending /\ C5_Listed) => pathResult.kind = "PathTraversalError"

----------------------------------------------------------------------------
(* SpecWrite: secureWriteFile, a reader of the target, failure injection *)

Bytes == {1, 2}
Contents == UNION {[1..n -> Bytes] : n \in 0..MaxContent}

\* names in the target's directory: the target, and <target>.tmp.<suffix>
Target == 0
TmpNames == 1..NSuffix
Names == {Target} \cup TmpNames

\* process.cwd()
Cwd == <<SLASH, "a">>
\* the raw paths handed to secureWriteFile: one inside cwd, one escaping it
WritePaths == { <<"a">>, <<DOT, DOT, SLASH, "a">> }

InitWrite ==
    /\ filePath \in WritePaths
    /\ content \in Contents
    /\ old \in {File(d) : d \in Contents} \cup {NoFile}
    /\ dirExists \in BOOLEAN
    /\ dirWritable \in BOOLEAN
    /\ fileWritable \in BOOLEAN
    /\ (~dirExists => old = NoFile /\ dirWritable)
    /\ (old = NoFile => fileWritable)
    /\ files = [n \in Names |-> IF n = Target THEN old ELSE NoFile]
    /\ tmpPath = 0
    /\ written = 0
    /\ wpc = "validate"
    /\ werror = "none"
    /\ observed = old
    /\ PathIdle
    /\ WrapIdle
    /\ ReadIdle /\ CopyIdle /\ JsonIdle /\ ErrIdle /\ RestIdle

\* throw: the call ends with an error
Throw(kind) ==
    /\ wpc' = "thrown"
    /\ werror' = kind

\* line 60: const safePath = validateSafePath(filePath)
SWF_Validate ==
    /\ wpc = "validate"
    /\ LET safePath == validateSafePath(filePath, Cwd)
       IN IF safePath.kind = "ok"
              THEN wpc' = "ensureDir" /\ UNCHANGED werror
              ELSE Throw(safePath.kind)
    /\ UNCHANGED <<filePath, content, old, files, dirExists, dirWritable,
                   fileWritable, tmpPath, written, observed>>
    /\ UNCHANGED <<pathVars, wrapVars, readVars, copyVars, jsonVars, errVars, restVars>>

\* line 64: await fs.ensureDir(dir), which creates a missing directory or throws
SWF_EnsureDir ==
    /\ wpc = "ensureDir"
    /\ \/ /\ dirExists
          /\ wpc' = "checkDir"
          /\ UNCHANGED <<dirExists, werror>>
       \/ /\ ~dirExists
          /\ dirExists' = TRUE
          /\ wpc' = "checkDir"
          /\ UNCHANGED werror
       \/ /\ ~dirExists
          /\ Throw("OSError")
          /\ UNCHANGED dirExists
    /\ UNCHANGED <<filePath, content, old, files, dirWritable,
                   fileWritable, tmpPath, written, observed>>
    /\ UNCHANGED <<pathVars, wrapVars, readVars, copyVars, jsonVars, errVars, restVars>>

\* lines 67-69: write permission on the directory
SWF_CheckDir ==
    /\ wpc = "checkDir"
    /\ IF dirWritable
           THEN wpc' = "checkFile" /\ UNCHANGED werror
           ELSE Throw("PermissionError")
    /\ UNCHANGED <<filePath, content, old, files, dirExists, dirWritable,
                   fileWritable, tmpPath, written, observed>>
    /\ UNCHANGED <<pathVars, wrapVars, readVars, copyVars, jsonVars, errVars, restVars>>

\* lines 72-73: the target exists and checkPermissions(safePath, W_OK) is
\* false (NeverDenied: the write going ahead without the check)
NeverDenied == FALSE
TargetWriteDenied == files[Target] # NoFile /\ ~fileWritable

\* lines 72-79: write permission on an existing target, then the temp name
SWF_CheckFile ==
    /\ wpc = "checkFile"
    /\ IF TargetWriteDenied
           THEN Throw("PermissionError") /\ UNCHANGED tmpPath
           ELSE /\ \E suffix \in TmpNames : tmpPath' = suffix
                /\ wpc' = "writeFile"
                /\ UNCHANGED werror
    /\ UNCHANGED <<filePath, content, old, files, dirExists, dirWritable,
                   fileWritable, written, observed>>
    /\ UNCHANGED <<pathVars, wrapVars, readVars, copyVars, jsonVars, errVars, restVars>>

\* the file fs.writeFile of line 83 puts its bytes into (WriteInPlace: the
\* same write done on the target itself)
WriteInPlace == Target
WriteDest == tmpPath

\* line 83, first half: fs.writeFile opens (creates, truncates) its file
SWF_WriteOpen ==
    /\ wpc = "writeFile"
    /\ \/ /\ files' = [files EXCEPT ![WriteDest] = File(<<>>)]
          /\ wpc' = "writing"
          /\ UNCHANGED werror
       \/ /\ wpc' = "cleanup"
          /\ werror' = "OSError"
          /\ UNCHANGED files
    /\ UNCHANGED <<filePath, content, old, dirExists, dirWritable,
                   fileWritable, tmpPath, written, observed>>
    /\ UNCHANGED <<pathVars, wrapVars, readVars, copyVars, jsonVars, errVars, restVars>>

\* line 83, second half: the bytes go out one write at a time; any write can fail
SWF_WriteChunk ==
    /\ wpc = "writing"
    /\ written < Len(content)
    /\ \/ /\ files' = [files EXCEPT ![WriteDest] = File(Append(@.data, content[written + 1]))]
          /\ written' = written + 1
          /\ UNCHANGED <<wpc, werror>>
       \/ /\ wpc' = "cleanup"
          /\ werror' = "OSError"
          /\ UNCHANGED <<files, written>>
    /\ UNCHANGED <<filePath, content, old, dirExists, dirWritable,
                   fileWritable, tmpPath, observed>>
    /\ UNCHANGED <<pathVars, wrapVars, readVars, copyVars, jsonVars, errVars, restVars>>

\* line 83 returns once every byte is out
SWF_WriteDone ==
    /\ wpc = "writing"
    /\ written = Len(content)
    /\ wpc' = "rename"
    /\ UNCHANGED <<filePath, content, old, files, dirExists, dirWritable,
                   fileWritable, tmpPath, written, werror, observed>>
    /\ UNCHANGED <<pathVars, wrapVars, readVars, copyVars, jsonVars, errVars, restVars>>

\* line 86: fs.rename(tmpPath, safePath), atomic, or failing without effect
SWF_Rename ==
    /\ wpc = "rename"
    /\ \/ /\ files' = [files EXCEPT ![Target] = files[tmpPath], ![tmpPath] = NoFile]
          /\ wpc' = "returned"
          /\ UNCHANGED werror
       \/ /\ wpc' = "cleanup"
          /\ werror' = "OSError"
          /\ UNCHANGED files
    /\ UNCHANGED <<filePath, content, old, dirExists, dirWritable,
                   fileWritable, tmpPath, written, observed>>
    /\ UNCHANGED <<pathVars, wrapVars, readVars, copyVars, jsonVars, errVars, restVars>>

\* lines 89-93: fs.unlink(tmpPath). One fault is injected per call: the unlink
\* of a file that exists, in the directory line 67 found writable, succeeds;
\* without a temp file it fails (no such file) and the code ignores that.
\* KeepTemp is the catch block without the unlink.
KeepTemp(fs) == fs
Unlinked(fs) == [fs EXCEPT ![tmpPath] = NoFile]

\* lines 87-95: the catch block cleans up and rethrows
SWF_Cleanup ==
    /\ wpc = "cleanup"
    /\ files' = Unlinked(files)
    /\ wpc' = "thrown"
    /\ UNCHANGED <<filePath, content, old, dirExists, dirWritable,
                   fileWritable, tmpPath, written, werror, observed>>
    /\ UNCHANGED <<pathVars, wrapVars, readVars, copyVars, jsonVars, errVars, restVars>>

\* another process reads the target path, at any moment
ReaderReads ==
    /\ wpc \notin {"idle"}
    /\ observed # files[Target]
    /\ observed' = files[Target]
    /\ UNCHANGED <<filePath, content, old, files, dirExists, dirWritable,
                   fileWritable, tmpPath, written, wpc, werror>>
    /\ UNCHANGED <<pathVars, wrapVars, readVars, copyVars, jsonVars, errVars, restVars>>

NextWrite ==
    \/ SWF_Validate
    \/ SWF_EnsureDir
    \/ SWF_CheckDir
    \/ SWF_CheckFile
    \/ SWF_WriteOpen
    \/ SWF_WriteChunk
    \/ SWF_WriteDone
    \/ SWF_Rename
    \/ SWF_Cleanup
    \/ ReaderReads

SpecWrite == InitWrite /\ [][NextWrite]_vars

\* C1: at every step of secureWriteFile (before, during and after the temp
\* file is written, after the rename, after a failure) the target holds, and a
\* reader reads, either exactly the old content or exactly the new content.
C1_ReaderSeesOldOrNew ==
    /\ files[Target] \in {old, File(content)}
    /\ observed \in {old, File(content)}

\* the temp file holds a strict, non-empty prefix of the new content while
\* the target still holds a different old content
C1_Witness ==
    /\ wpc = "writing"
    /\ old # NoFile
    /\ old # File(content)
    /\ 0 < written
    /\ written < Len(content)
    /\ files[tmpPath] = File(SubSeq(content, 1, written))
    /\ files[Target] = old
    /\ observed = old

----------------------------------------------------------------------------
(* SpecWrap: the claude and gemini wrappers *)

\* An argument is a sequence of symbols: a shell metacharacter, or a run of
\* ordinary characters taken as one symbol.
FLAG_LONG == <<"--context-file">>
FLAG_SHORT == <<"-c">>
CLAUDE_MD == <<"CLAUDE", DOT, "md">>
GEMINI_MD == <<"GEMINI", DOT, "md">>
\* a value that is not a string (process.argv itself holds strings only)
NonString == <<"NONSTRING">>
isString(arg) == arg # NonString

\* the characters validateCommand rejects (validation.js lines 157-168)
\* (shellChars: the shorter list of the wrappers' own argument check)
shellChars == {";", "|", "&", BACKTICK, "$"}
dangerousChars == {"|", ";", "&", "$", BACKTICK, ">", "<", "(", ")", "{", "}", "[", "]"}
LineBreaks == {"LF", "CR"}
SanitizerRejects(arg) ==
    \/ ~isString(arg)
    \/ \E c \in dangerousChars \cup LineBreaks : includes(arg, <<c>>)

CleanArgs == {FLAG_LONG, FLAG_SHORT, CLAUDE_MD, GEMINI_MD, <<"x">>}
BadArgs == {<<"x", c>> : c \in dangerousChars \cup LineBreaks}
CleanLists == UNION {[1..n -> CleanArgs] : n \in 0..MaxArgs}
\* every list of clean arguments, and each with one argument replaced by a bad one
ArgLists ==
    CleanLists \cup
    {[l EXCEPT ![i] = b] : l \in CleanLists \ {<<>>}, i \in 1..MaxArgs, b \in BadArgs}

ContextFilename(c) == IF c = "claude" THEN CLAUDE_MD ELSE GEMINI_MD
\* (InterceptedName: the wrapper spawning the name it stands in for)
InterceptedName(c) == c
RealBinary(c) == IF c = "claude" THEN "claude-original" ELSE "gemini-original"

\* __dirname of the wrapper scripts, and path.join('..', '..', 'templates', <file>)
Dirname == <<SLASH, "pkg", SLASH, "src", SLASH, "wrapper">>
TemplateRelativePath(c) ==
    <<DOT, DOT, SLASH, DOT, DOT, SLASH, "templates", SLASH>> \o ContextFilename(c)
MarkerName == <<DOT, "proguardian">>

\* what the child does once spawn has been called
Fates ==
    {[kind |-> "exit", code |-> n, errno |-> "none"] : n \in 0..MaxExitCode}
    \cup {[kind |-> "signal", code |-> 0, errno |-> "none"]}
    \cup {[kind |-> "error", code |-> 0, errno |-> e] : e \in {"ENOENT", "EACCES"}}
NoFate == [kind |-> "none", code |-> 0, errno |-> "none"]

InitWrap ==
    /\ cli \in {"claude", "gemini"}
    /\ markerExists \in BOOLEAN
    /\ contextExists \in BOOLEAN
    /\ args \in ArgLists
    /\ spawnCalls = <<>>
    /\ fate = NoFate
    /\ emitted = <<>>
    /\ alive = TRUE
    /\ exitCode = NoCode
    /\ terminal = <<>>
    /\ rpc = "start"
    /\ PathIdle
    /\ WriteIdle
    /\ ReadIdle /\ CopyIdle /\ JsonIdle /\ ErrIdle /\ RestIdle

\* process.exit(code) (ExitCodeOnly: process.exitCode = code, which records
\* the code and lets the process run on)
ExitCodeOnly(code) ==
    /\ exitCode' = code
    /\ UNCHANGED <<alive, rpc>>
ProcessExit(code) ==
    /\ alive' = FALSE
    /\ exitCode' = code
    /\ rpc' = "exited"

\* securePathExists (file-security.js lines 157-165) on a path of the
\* working directory: a validation failure reads as "does not exist"
securePathExists(p, onDisk) ==
    IF validateSafePath(p, Cwd).kind = "ok" THEN onDisk ELSE FALSE

\* lines 18-21: resolve the marker and the context file, pick the mode
WrapStart ==
    /\ rpc = "start"
    /\ alive
    /\ LET guardianMarkerPath == validateSafePath(MarkerName, Cwd)
           mdPath == validateSafePath(ContextFilename(cli), Cwd)
       IN IF guardianMarkerPath.kind # "ok" \/ mdPath.kind # "ok"
              THEN ProcessExit(1)      \* catch: handleError(error, {exit: true})
          ELSE IF securePathExists(guardianMarkerPath.path, markerExists)
              THEN /\ rpc' = IF securePathExists(mdPath.path, contextExists)
                                THEN "supervised" ELSE "restore"
                   /\ UNCHANGED <<alive, exitCode>>
          ELSE /\ rpc' = "unsupervised"
               /\ UNCHANGED <<alive, exitCode>>
    /\ UNCHANGED <<cli, markerExists, contextExists, args, spawnCalls, fate,
                   emitted, terminal>>
    /\ UNCHANGED <<pathVars, writeVars, readVars, copyVars, jsonVars, errVars, restVars>>

\* lines 25-30: restore the context file from the bundled template;
\* secureCopyFile validates both of its paths against the working directory
WrapRestore ==
    /\ rpc = "restore"
    /\ alive
    /\ LET templatePath == validateSafePath(TemplateRelativePath(cli), Dirname)
           mdPath == validateSafePath(ContextFilename(cli), Cwd)
       IN IF /\ templatePath.kind = "ok"
             /\ validateSafePath(templatePath.path, Cwd).kind = "ok"
             /\ validateSafePath(mdPath.path, Cwd).kind = "ok"
              THEN /\ contextExists' = TRUE
                   /\ rpc' = "supervised"
                   /\ UNCHANGED <<alive, exitCode>>
              ELSE /\ ProcessExit(1)   \* catch: handleError(error, {exit: true})
                   /\ UNCHANGED contextExists
    /\ UNCHANGED <<cli, markerExists, args, spawnCalls, fate, emitted, terminal>>
    /\ UNCHANGED <<pathVars, writeVars, readVars, copyVars, jsonVars, errVars, restVars>>

\* lines 47-54 and 125-132: the wrappers' own argument check
ArgRejected(arg) ==
    \/ ~isString(arg)
    \/ \E c \in {";", "|", "&", BACKTICK, "$"} : includes(arg, <<c>>)

isContextFlag(arg) == arg = FLAG_LONG \/ arg = FLAG_SHORT

\* lines 37-68: the supervised scan; the value after a context-file flag is
\* copied and skipped
RECURSIVE ScanArgs(_, _, _, _)
ScanArgs(argv, i, skipNext, safeArgs) ==
    IF i > Len(argv) THEN [ok |-> TRUE, safeArgs |-> safeArgs]
    ELSE IF skipNext THEN ScanArgs(argv, i + 1, FALSE, safeArgs)
    ELSE IF ArgRejected(argv[i]) THEN [ok |-> FALSE, safeArgs |-> safeArgs]
    ELSE IF isContextFlag(argv[i])
        THEN ScanArgs(argv, i + 1, TRUE,
                      IF i + 1 <= Len(argv)
                          THEN safeArgs \o <<argv[i], argv[i + 1]>>
                          ELSE Append(safeArgs, argv[i]))
    ELSE ScanArgs(argv, i + 1, FALSE, Append(safeArgs, argv[i]))

\* lines 70-90: force the context file into the arguments (AlwaysAppend: the
\* same without the hasClaudeMd test)
AlwaysAppend(safeArgs, filename) == safeArgs \o <<FLAG_LONG, filename>>
Augment(safeArgs, filename) ==
    IF \A i \in 1..Len(safeArgs) : ~isContextFlag(safeArgs[i])
        THEN safeArgs \o <<FLAG_LONG, filename>>
    ELSE IF \E i \in 1..Len(safeArgs) :
                /\ isContextFlag(safeArgs[i])
                /\ i + 1 <= Len(safeArgs)
                /\ safeArgs[i + 1] = filename
        THEN safeArgs
    ELSE safeArgs \o <<FLAG_LONG, filename>>

\* lines 100-104 and 138-141: spawn(<real binary>, argv, {shell: false})
Spawn(argv) ==
    /\ spawnCalls' = Append(spawnCalls,
                            [file |-> RealBinary(cli), args |-> argv, shell |-> FALSE])
    /\ \E f \in Fates : fate' = f
    /\ rpc' = "waiting"
    /\ UNCHANGED <<alive, exitCode>>

\* lines 33-104: scan, augment, spawn
WrapSupervised ==
    /\ rpc = "supervised"
    /\ alive
    /\ LET scan == ScanArgs(args, 1, FALSE, <<>>)
       IN IF scan.ok
              THEN Spawn(Augment(scan.safeArgs, ContextFilename(cli)))
              ELSE ProcessExit(1) /\ UNCHANGED <<spawnCalls, fate>>
    /\ UNCHANGED <<cli, markerExists, contextExists, args, emitted, terminal>>
    /\ UNCHANGED <<pathVars, writeVars, readVars, copyVars, jsonVars, errVars, restVars>>

\* line 138: the argument vector of the unsupervised spawn (AugmentedArgv:
\* the supervised augmentation applied here too)
AugmentedArgv(argv) == Augment(argv, CLAUDE_MD)
UnsupervisedArgv(argv) == argv

\* lines 121-141: check, spawn with the original arguments
WrapUnsupervised ==
    /\ rpc = "unsupervised"
    /\ alive
    /\ IF \E i \in 1..Len(args) : ArgRejected(args[i])
           THEN ProcessExit(1) /\ UNCHANGED <<spawnCalls, fate>>
           ELSE Spawn(UnsupervisedArgv(args))
    /\ UNCHANGED <<cli, markerExists, contextExists, args, emitted, terminal>>
    /\ UNCHANGED <<pathVars, writeVars, readVars, copyVars, jsonVars, errVars, restVars>>

\* line 117 / 154: code || 0 (AlwaysZero: the child's code dropped)
AlwaysZero(ev) == 0
ExitStatus(ev) == IF ev.hasCode /\ ev.code # 0 THEN ev.code ELSE 0

\* lines 106-114 / 143-151: the child's 'error' event and its handler
OnError ==
    /\ rpc = "waiting"
    /\ alive
    /\ fate.kind = "error"
    /\ \A k \in 1..Len(emitted) : emitted[k].type # "error"
    /\ emitted' = Append(emitted, [type |-> "error", hasCode |-> FALSE, code |-> 0])
    /\ terminal' = Append(terminal, "SpawnFailed")
    /\ ProcessExit(1)
    /\ UNCHANGED <<cli, markerExists, contextExists, args, spawnCalls, fate>>
    /\ UNCHANGED <<pathVars, writeVars, readVars, copyVars, jsonVars, errVars, restVars>>

\* lines 116-118 / 153-155: the child's 'exit' event and its handler. After a
\* failed spawn 'exit' may or may not follow 'error'.
OnExit ==
    /\ rpc = "waiting"
    /\ alive
    /\ \A k \in 1..Len(emitted) : emitted[k].type # "exit"
    /\ \/ fate.kind \in {"exit", "signal"}
       \/ fate.kind = "error" /\ emitted # <<>>
    /\ LET ev == [type |-> "exit",
                  hasCode |-> fate.kind = "exit",
                  code |-> IF fate.kind = "exit" THEN fate.code ELSE 0]
       IN /\ emitted' = Append(emitted, ev)
          /\ terminal' = Append(terminal,
                                IF ev.hasCode THEN "Exited" ELSE "SignalExited")
          /\ ProcessExit(ExitStatus(ev))
    /\ UNCHANGED <<cli, markerExists, contextExists, args, spawnCalls, fate>>
    /\ UNCHANGED <<pathVars, writeVars, readVars, copyVars, jsonVars, errVars, restVars>>

NextWrap ==
    \/ WrapStart
    \/ WrapRestore
    \/ WrapSupervised
    \/ WrapUnsupervised
    \/ OnError
    \/ OnExit

SpecWrap == InitWrap /\ [][NextWrap]_vars

Spawned == spawnCalls # <<>>
Argv == spawnCalls[1].args
HasContextFlag(argv) == \E i \in 1..Len(argv) : isContextFlag(argv[i])

\* C6: in both modes, an argument that is not a string or that the command
\* sanitizer rejects, at any position (the value after a context-file flag
\* included), makes the wrapper exit non-zero without any spawn.
C6_BadArgumentNeverSpawns ==
    (\E i \in 1..Len(args) : SanitizerRejects(args[i])) =>
        /\ ~Spawned
        /\ ~alive => exitCode # 0

\* C7: in supervised mode the argument vector of the spawn holds a
\* context-file flag immediately followed by the expected filename; an input
\* without a flag is passed on followed by exactly one "--context-file <file>"
\* pair; augmenting the augmented vector again returns it unchanged.
C7_ContextFileForcedOnce ==
    (markerExists /\ Spawned) =>
        LET f == ContextFilename(cli)
            again == ScanArgs(Argv, 1, FALSE, <<>>)
        IN /\ \E i \in 1..(Len(Argv) - 1) : isContextFlag(Argv[i]) /\ Argv[i + 1] = f
           /\ ~HasContextFlag(args) => Argv = args \o <<FLAG_LONG, f>>
           /\ again.ok
           /\ Augment(again.safeArgs, f) = Argv

\* a supervised spawn for a non-empty input without a context-file flag
C7_Witness ==
    /\ markerExists
    /\ Spawned
    /\ Len(args) >= 1
    /\ ~HasContextFlag(args)
    /\ Len(Argv) = Len(args) + 2

\* C8: without the marker file, and with every argument accepted, the real
\* binary is spawned with exactly the original argument vector.
C8_UnsupervisedArgsUnchanged ==
    (~markerExists /\ Spawned) =>
        /\ Len(spawnCalls) = 1
        /\ Argv = args

\* an unsupervised spawn with two arguments, one of them a context-file flag
C8_Witness ==
    /\ ~markerExists
    /\ Spawned
    /\ Len(args) >= 2
    /\ HasContextFlag(args)

\* C9: an invocation that spawned enters exactly one terminal state, and the
\* wrapper process ends exactly then: not before a child event has been
\* observed, and not a second time whatever events follow.
C9_ExactlyOneTerminalTransition ==
    Spawned =>
        /\ Len(spawnCalls) = 1
        /\ Len(terminal) <= 1
        /\ ~alive <=> Len(terminal) = 1
        /\ ~alive => Len(emitted) = 1

\* the spawn failed and the wrapper ended in SpawnFailed
C9_Witness ==
    /\ Spawned
    /\ ~alive
    /\ fate.kind = "error"
    /\ terminal = <<"SpawnFailed">>

\* C10: the wrapper exits with the child's exit code on every normal exit,
\* with 1 when the spawn failed, and with 0 only when the child exited with 0
\* or reported no code.
C10_ExitCodePropagated ==
    (Spawned /\ ~alive) =>
        /\ fate.kind = "exit" => exitCode = fate.code
        /\ fate.kind = "error" => exitCode = 1
        /\ fate.kind = "signal" => exitCode = 0
        /\ exitCode = 0 => (fate.kind = "signal" \/ (fate.kind = "exit" /\ fate.code = 0))

\* the child exited with a code above 1 and the wrapper passed it on
C10_Witness ==
    /\ Spawned
    /\ ~alive
    /\ fate.kind = "exit"
    /\ fate.code > 1
    /\ exitCode = fate.code

\* C11: in supervised mode a missing context file is restored from the
\* bundled template and the wrapper goes on: the file is there when the real
\* binary is spawned, and the only exit without a spawn is a rejected argument.
C11_ContextFileRestoredThenSpawn ==
    markerExists =>
        /\ Spawned => contextExists
        /\ (~alive /\ ~Spawned) => ~ScanArgs(args, 1, FALSE, <<>>).ok

\* C12: every spawn, in both modes, names the real binary (never the
\* intercepted name), passes shell: false, and passes the arguments as an
\* array whose elements are the forwarded arguments (and the forced pair),
\* not one command string.
C12_SpawnsRealBinaryWithoutShell ==
    \A k \in 1..Len(spawnCalls) :
        LET call == spawnCalls[k]
        IN /\ call.shell = FALSE
           /\ call.file = (IF cli = "claude" THEN "claude-original" ELSE "gemini-original")
           /\ call.file # cli
           /\ \A j \in 1..Len(call.args) :
                 \/ call.args[j] \in {FLAG_LONG, ContextFilename(cli)}
                 \/ \E i \in 1..Len(args) : call.args[j] = args[i]

\* a supervised spawn of the gemini wrapper with two forwarded arguments
C12_Witness ==
    /\ cli = "gemini"
    /\ markerExists
    /\ Spawned
    /\ Len(args) = 2
    /\ spawnCalls[1].file = "gemini-original"

\* C15: a write to a valid path whose target exists and is not writable
\* never gets as far as a temp file: no temp name is chosen, no temp sibling
\* exists, the target holds its old content, and the call ends, if it has
\* ended, with PermissionError.
C15_NonWritableTargetFailsBeforeTemp ==
    (/\ validateSafePath(filePath, Cwd).kind = "ok"
     /\ old # NoFile
     /\ ~fileWritable
     /\ wpc # "idle") =>
        /\ tmpPath = 0
        /\ \A t \in TmpNames : files[t] = NoFile
        /\ files[Target] = old
        /\ wpc \in {"validate", "ensureDir", "checkDir", "checkFile", "thrown"}
        /\ wpc = "thrown" => werror = "PermissionError"

\* the permission check on the target itself (the directory being writable)
\* has ended the call
C15_Witness ==
    /\ wpc = "thrown"
    /\ werror = "PermissionError"
    /\ validateSafePath(filePath, Cwd).kind = "ok"
    /\ old # NoFile
    /\ dirWritable
    /\ ~fileWritable
    /\ files[Target] = old
    /\ tmpPath = 0

-----------------------------------------------------------------------------
(* SpecRead: one call of secureReadFile, with a writer appending to the file *)

\* a run of 5 MiB of file bytes, written as one symbol
BLOCK == "5MiB"
\* the default ceiling of secureReadFile, the ceiling the init/check flows
\* pass, and the ceiling the size-limit test passes
DefaultMaxSize == 10 * 1024 * 1024
ConfigMaxSize == 5 * 1024 * 1024
TestMaxSize == 1024
MaxSizes == {DefaultMaxSize, ConfigMaxSize, TestMaxSize}

\* longest file of SpecRead, in symbols
MaxBlocks == 3
ReadContents == UNION {[1..n -> {"x", BLOCK}] : n \in 0..MaxBlocks}

\* stats.size: the number of bytes of the file
Weight(b) == IF b = BLOCK THEN ConfigMaxSize ELSE 1
SizeOf(bytes) ==
    LET blocks == Cardinality({i \in 1..Len(bytes) : bytes[i] = BLOCK})
    IN blocks * Weight(BLOCK) + (Len(bytes) - blocks) * Weight("x")

\* line 43: stats.size > maxSize (SizeReaches: the comparison made with >=)
SizeReaches(size, max) == size >= max
SizeExceeds(size, max) == size > max

InitRead ==
    /\ filePath \in WritePaths
    /\ content = <<>>
    /\ old \in {File(d) : d \in ReadContents} \cup {NoFile}
    /\ files = [n \in Names |-> IF n = Target THEN old ELSE NoFile]
    /\ dirExists = TRUE
    /\ dirWritable = TRUE
    /\ fileWritable = TRUE
    /\ tmpPath = 0
    /\ written = 0
    /\ wpc = "idle"
    /\ werror = "none"
    /\ observed = old
    /\ maxSize \in MaxSizes
    /\ fileReadable \in BOOLEAN
    /\ statSize = NoSize
    /\ readCalls = 0
    /\ rdpc = "validate"
    /\ rdResult = NoResult
    /\ PathIdle
    /\ WrapIdle
    /\ CopyIdle /\ JsonIdle /\ ErrIdle /\ RestIdle

\* throw: the read ends with an error
ReadThrow(kind) ==
    /\ rdpc' = "thrown"
    /\ rdResult' = [kind |-> kind, data |-> <<>>]

\* line 34: const safePath = validateSafePath(filePath)
SRF_Validate ==
    /\ rdpc = "validate"
    /\ LET safePath == validateSafePath(filePath, Cwd)
       IN IF safePath.kind = "ok"
              THEN rdpc' = "checkRead" /\ UNCHANGED rdResult
              ELSE ReadThrow(safePath.kind)
    /\ UNCHANGED <<maxSize, fileReadable, statSize, readCalls>>
    /\ UNCHANGED <<pathVars, writeVars, wrapVars, copyVars, jsonVars, errVars, restVars>>

\* lines 37-39: checkPermissions(safePath, R_OK); access fails on a missing file
SRF_CheckRead ==
    /\ rdpc = "checkRead"
    /\ IF files[Target] # NoFile /\ fileReadable
           THEN rdpc' = "stat" /\ UNCHANGED rdResult
           ELSE ReadThrow("PermissionError")
    /\ UNCHANGED <<maxSize, fileReadable, statSize, readCalls>>
    /\ UNCHANGED <<pathVars, writeVars, wrapVars, copyVars, jsonVars, errVars, restVars>>

\* lines 42-47: fs.stat, then the comparison of stats.size with maxSize
SRF_Stat ==
    /\ rdpc = "stat"
    /\ LET size == SizeOf(files[Target].data)
       IN /\ statSize' = [known |-> TRUE, size |-> size]
          /\ IF SizeExceeds(size, maxSize)
                 THEN ReadThrow("SecurityError")
                 ELSE rdpc' = "readFile" /\ UNCHANGED rdResult
    /\ UNCHANGED <<maxSize, fileReadable, readCalls>>
    /\ UNCHANGED <<pathVars, writeVars, wrapVars, copyVars, jsonVars, errVars, restVars>>

\* line 50: return fs.readFile(safePath, encoding)
SRF_ReadFile ==
    /\ rdpc = "readFile"
    /\ readCalls' = readCalls + 1
    /\ rdResult' = [kind |-> "ok", data |-> files[Target].data]
    /\ rdpc' = "returned"
    /\ UNCHANGED <<maxSize, fileReadable, statSize>>
    /\ UNCHANGED <<pathVars, writeVars, wrapVars, copyVars, jsonVars, errVars, restVars>>

\* between the awaits of lines 37, 42 and 50 another process appends to the
\* file, once
WriterAppends ==
    /\ rdpc \in {"checkRead", "stat", "readFile"}
    /\ files[Target] # NoFile
    /\ files[Target] = old
    /\ \E b \in {"x", BLOCK} :
          files' = [files EXCEPT ![Target] = File(Append(files[Target].data, b))]
    /\ UNCHANGED <<filePath, content, old, dirExists, dirWritable,
                   fileWritable, tmpPath, written, wpc, werror, observed>>
    /\ UNCHANGED <<pathVars, wrapVars, readVars, copyVars, jsonVars, errVars, restVars>>

NextRead ==
    \/ SRF_Validate
    \/ SRF_CheckRead
    \/ SRF_Stat
    \/ SRF_ReadFile
    \/ WriterAppends

SpecRead == InitRead /\ [][NextRead]_vars

\* C16: content is returned only when the size stat reported is at most
\* maxSize; when the size stat reported exceeds maxSize the call has thrown
\* SecurityError and fs.readFile was never called; a file whose size equals
\* maxSize passes the size check and is read.
C16_SizeCeilingAtStatTime ==
    /\ rdResult.kind = "ok" =>
          /\ statSize.known
          /\ statSize.size <= maxSize
    /\ (statSize.known /\ statSize.size > maxSize) =>
          /\ rdpc = "thrown"
          /\ rdResult.kind = "SecurityError"
          /\ readCalls = 0
    /\ (statSize.known /\ statSize.size <= maxSize) =>
          /\ rdpc \in {"readFile", "returned"}
          /\ rdResult.kind \in {"pending", "ok"}
    /\ rdpc = "returned" => readCalls = 1 /\ rdResult.kind = "ok"

\* a file of exactly the default 10 MiB has been read and returned
C16_Witness ==
    /\ rdpc = "returned"
    /\ rdResult.kind = "ok"
    /\ maxSize = DefaultMaxSize
    /\ statSize.size = maxSize
    /\ SizeOf(rdResult.data) = maxSize
    /\ readCalls = 1

-----------------------------------------------------------------------------
(* SpecErr: new SecurityError(message), then handleError(error) *)

\* the character classes of the patterns of sanitizeErrorMessage
Digits == {"0", "1", "2", "3", "4", "5", "6", "7", "8", "9"}
HexLetters == {"a", "b", "c", "d", "e", "f", "A", "B", "C", "D", "E", "F"}
Lower == {"a", "b", "c", "d", "e", "f", "g", "h", "i", "j", "k", "l", "m",
          "n", "o", "p", "q", "r", "s", "t", "u", "v", "w", "x", "y", "z"}
Upper == {"A", "B", "C", "D", "E", "F", "G", "H", "I", "J", "K", "L", "M",
          "N", "O", "P", "Q", "R", "S", "T", "U", "V", "W", "X", "Y", "Z"}
Letters == Lower \cup Upper
Punctuation == {" ", "TAB", "LF", "CR", "DQUOTE", "APOS", "<", ">", "|", DOT,
                SLASH, BACKSLASH, ":", "@", "_", "-", "%", "+", "=", ",", "(", ")"}
Chars == Letters \cup Digits \cup Punctuation
\* [0-9a-fA-F]
Hex == Digits \cup HexLetters
\* \w
WordChars == Letters \cup Digits \cup {"_"}
\* [\\/]
Slashes == {SLASH, BACKSLASH}
\* [^\s"'<>|]
PathChars == Chars \ {" ", "TAB", "LF", "CR", "DQUOTE", "APOS", "<", ">", "|"}
\* [A-Za-z0-9._%+-], [A-Za-z0-9.-], [A-Z|a-z], [A-Za-z0-9+/]
EmailLocal == Letters \cup Digits \cup {DOT, "_", "%", "+", "-"}
EmailDomain == Letters \cup Digits \cup {DOT, "-"}
EmailTld == Letters \cup {"|"}
Base64Chars == Letters \cup Digits \cup {"+", SLASH}

\* the replacement texts: '<ip>', '<id>', ... and '<path>'
Tag(word) == <<"<">> \o word \o <<">">>
PATH_TAG == Tag(<<"p", "a", "t", "h">>)

\* the character at index i, or nothing outside the string
At(s, i) == IF i \in 1..Len(s) THEN s[i] ELSE "none"
\* \b at index i: exactly one of the characters before and at i is a word character
Boundary(s, i) == (At(s, i - 1) \in WordChars) # (At(s, i) \in WordChars)
\* the length of the longest run of characters of class S starting at i
RECURSIVE RunLen(_, _, _)
RunLen(s, i, S) == IF At(s, i) \in S THEN 1 + RunLen(s, i + 1, S) ELSE 0
\* all of s[a..b] is in the string and in class S
AllIn(s, a, b, S) == \A i \in a..b : At(s, i) \in S
Min(a, b) == IF a < b THEN a ELSE b

\* String.prototype.replace(/.../g, tag): left to right, every match that
\* starts where the scan stands is replaced and the scan resumes after it;
\* lens[i] is the length of the match starting at i, 0 for none
RECURSIVE Rebuild(_, _, _, _)
Rebuild(s, lens, i, tag) ==
    LET matches == {j \in i..Len(s) : lens[j] > 0}
    IN IF matches = {} THEN SubSeq(s, i, Len(s))
       ELSE CHOOSE out \in
                { SubSeq(s, i, j - 1) \o tag \o Rebuild(s, lens, j + lens[j], tag) :
                  j \in {CHOOSE m \in matches : \A n \in matches : m <= n} } : TRUE
\* text.replace(pattern, tag), MatchLen(x, i) being the length of the match
\* of the pattern at index i of x
Replace(MatchLen(_, _), text, tag) ==
    CHOOSE out \in { Rebuild(x, [i \in 1..Len(x) |-> MatchLen(x, i)], 1, tag) :
                     x \in {text} } : TRUE

\* ([0-9a-fA-F]{1,4}:) at i: its length, 0 for none
HexGroup(s, i) ==
    LET n == RunLen(s, i, Hex)
    IN IF n \in 1..4 /\ At(s, i + n) = ":" THEN n + 1 ELSE 0
\* the greedy repetition of the group at i, at most max times: <<count, length>>
RECURSIVE HexGroups(_, _, _)
HexGroups(s, i, max) ==
    IF max = 0 \/ HexGroup(s, i) = 0 THEN <<0, 0>>
    ELSE LET rest == HexGroups(s, i + HexGroup(s, i), max - 1)
         IN <<1 + rest[1], HexGroup(s, i) + rest[2]>>

\* line 20: /([0-9a-fA-F]{1,4}:){7}[0-9a-fA-F]{1,4}/
IPv6FullLen(s, i) ==
    LET g == HexGroups(s, i, 7)
        n == Min(RunLen(s, i + g[2], Hex), 4)
    IN IF g[1] = 7 /\ n >= 1 THEN g[2] + n ELSE 0
\* line 22: /([0-9a-fA-F]{1,4}:){1,7}:/
IPv6HeadLen(s, i) ==
    LET g == HexGroups(s, i, 7)
    IN IF g[1] >= 1 /\ At(s, i + g[2]) = ":" THEN g[2] + 1 ELSE 0
\* line 23: /:([0-9a-fA-F]{1,4}:){1,7}/
IPv6TailLen(s, i) ==
    LET g == HexGroups(s, i + 1, 7)
    IN IF At(s, i) = ":" /\ g[1] >= 1 THEN 1 + g[2] ELSE 0
\* line 25: /([0-9a-fA-F]{1,4}:){2,}[0-9a-fA-F]{0,4}/
IPv6RestLen(s, i) ==
    LET g == HexGroups(s, i, Len(s))
    IN IF g[1] >= 2 THEN g[2] + Min(RunLen(s, i + g[2], Hex), 4) ELSE 0
\* line 29: /\.{1,2}([\\/][^\s"'<>|]*)+/
RelativePathLen(s, i) ==
    LET dots == IF At(s, i) = DOT /\ At(s, i + 1) = DOT /\ At(s, i + 2) \in Slashes THEN 2
                ELSE IF At(s, i) = DOT /\ At(s, i + 1) \in Slashes THEN 1
                ELSE 0
    IN IF dots = 0 THEN 0 ELSE dots + RunLen(s, i + dots, PathChars)
\* line 33: /[a-zA-Z]:[\\//][^\s"'<>|]+/
WindowsPathLen(s, i) ==
    IF /\ At(s, i) \in Letters
       /\ At(s, i + 1) = ":"
       /\ At(s, i + 2) \in Slashes
       /\ At(s, i + 3) \in PathChars
        THEN 3 + RunLen(s, i + 3, PathChars)
        ELSE 0
\* line 35: /(?<!<path>)\/[^\s"'<>|]+/
UnixPathLen(s, i) ==
    IF /\ At(s, i) = SLASH
       /\ ~(i > Len(PATH_TAG) /\ SubSeq(s, i - Len(PATH_TAG), i - 1) = PATH_TAG)
       /\ At(s, i + 1) \in PathChars
        THEN 1 + RunLen(s, i + 1, PathChars)
        ELSE 0
\* line 37: /\\\\[^\s"'<>|]+/
UncPathLen(s, i) ==
    IF /\ At(s, i) = BACKSLASH
       /\ At(s, i + 1) = BACKSLASH
       /\ At(s, i + 2) \in PathChars
        THEN 2 + RunLen(s, i + 2, PathChars)
        ELSE 0
\* line 40: hex{8}-hex{4}-hex{4}-hex{4}-hex{12}
UuidLen(s, i) ==
    IF /\ AllIn(s, i, i + 7, Hex) /\ At(s, i + 8) = "-"
       /\ AllIn(s, i + 9, i + 12, Hex) /\ At(s, i + 13) = "-"
       /\ AllIn(s, i + 14, i + 17, Hex) /\ At(s, i + 18) = "-"
       /\ AllIn(s, i + 19, i + 22, Hex) /\ At(s, i + 23) = "-"
       /\ AllIn(s, i + 24, i + 35, Hex)
        THEN 36
        ELSE 0
\* line 43: /\b\d{4,}\b/
IdLen(s, i) ==
    LET n == RunLen(s, i, Digits)
    IN IF Boundary(s, i) /\ n >= 4 /\ Boundary(s, i + n) THEN n ELSE 0
\* line 44: /\b[A-Za-z0-9._%+-]+@[A-Za-z0-9.-]+\.[A-Z|a-z]{2,}\b/; the domain
\* is taken greedily, so the last dot that a top-level part can follow wins
EmailLen(s, i) ==
    LET l == RunLen(s, i, EmailLocal)
        from == i + l + 1
        d == RunLen(s, from, EmailDomain)
        Tld(j) == {k \in 2..RunLen(s, j + 1, EmailTld) : Boundary(s, j + 1 + k)}
        dots == {j \in (from + 1)..(from + d - 1) : s[j] = DOT /\ Tld(j) # {}}
    IN IF Boundary(s, i) /\ l >= 1 /\ At(s, i + l) = "@" /\ dots # {}
           THEN LET j == CHOOSE j \in dots : \A j2 \in dots : j2 <= j
                    k == CHOOSE k \in Tld(j) : \A k2 \in Tld(j) : k2 <= k
                IN j + k - i + 1
           ELSE 0
\* line 45: /\b(?:\d{1,3}\.){3}\d{1,3}\b/
OctetDot(s, i) ==
    LET n == RunLen(s, i, Digits)
    IN IF n \in 1..3 /\ At(s, i + n) = DOT THEN n + 1 ELSE 0
IPv4Len(s, i) ==
    LET a == OctetDot(s, i)
        b == OctetDot(s, i + a)
        c == OctetDot(s, i + a + b)
        n == RunLen(s, i + a + b + c, Digits)
    IN IF /\ Boundary(s, i)
          /\ a > 0 /\ b > 0 /\ c > 0
          /\ n \in 1..3
          /\ Boundary(s, i + a + b + c + n)
           THEN a + b + c + n
           ELSE 0
\* line 48: /\b[a-fA-F0-9]{32,}\b/
HexTokenLen(s, i) ==
    LET n == RunLen(s, i, Hex)
    IN IF Boundary(s, i) /\ n >= 32 /\ Boundary(s, i + n) THEN n ELSE 0
\* line 49: /[A-Za-z0-9+/]{20,}={0,2}/
Base64Len(s, i) ==
    LET n == RunLen(s, i, Base64Chars)
    IN IF n >= 20 THEN n + Min(RunLen(s, i + n, {"="}), 2) ELSE 0

\* lines 16-51: the chain of replacements, in the order of the source
sanitizeErrorMessage(m) ==
    LET s1 == Replace(IPv6FullLen, m, Tag(<<"i", "p">>))
        s2 == Replace(IPv6HeadLen, s1, Tag(<<"i", "p">>))
        s3 == Replace(IPv6TailLen, s2, Tag(<<"i", "p">>))
        s4 == Replace(IPv6RestLen, s3, Tag(<<"i", "p">>))
        s5 == Replace(RelativePathLen, s4, PATH_TAG)
        s6 == Replace(WindowsPathLen, s5, PATH_TAG)
        s7 == Replace(UnixPathLen, s6, PATH_TAG)
        s8 == Replace(UncPathLen, s7, PATH_TAG)
        s9 == Replace(UuidLen, s8, Tag(<<"u", "u", "i", "d">>))
        s10 == Replace(IdLen, s9, Tag(<<"i", "d">>))
        s11 == Replace(EmailLen, s10, Tag(<<"e", "m", "a", "i", "l">>))
        s12 == Replace(IPv4Len, s11, Tag(<<"i", "p">>))
        s13 == Replace(HexTokenLen, s12, Tag(<<"t", "o", "k", "e", "n">>))
    IN Replace(Base64Len, s13, Tag(<<"t", "o", "k", "e", "n">>))

\* the sensitive texts a message embeds: absolute paths, email addresses,
\* IPv4 addresses
PathItems == { <<SLASH, "a">>, <<SLASH, "a", SLASH, "b", DOT, "c">> }
EmailItems == { <<"a", "@", "b", DOT, "c", "o">>,
                <<"1", "1", "1", "1", "@", "b", DOT, "c", "o">> }
IpItems == { <<"1", DOT, "2", DOT, "3", DOT, "4">>,
             <<"1", "0", DOT, "2", "0", DOT, "3", "0", DOT, "4", "0">> }
\* the text a message puts directly before an embedded item: nothing (the
\* item follows a space), a name and an underscore, a name and an equals
\* sign, the text "<path>"
Glue == { <<>>, <<"x", "_">>, <<"x", "=">>, PATH_TAG }
Orders == {f \in [1..3 -> 1..3] : \A i, j \in 1..3 : f[i] = f[j] => i = j}
\* a message embedding one path, one email address and one IPv4 address, in
\* any order, separated by spaces
Messages ==
    { LET parts == <<g[1] \o p, g[2] \o e, g[3] \o a>>
      IN parts[f[1]] \o <<" ">> \o parts[f[2]] \o <<" ">> \o parts[f[3]] :
        <<p, e, a, g, f>> \in PathItems \X EmailItems \X IpItems \X (Glue \X Glue \X Glue) \X Orders }

InitErr ==
    /\ message \in Messages
    /\ errorMessage = <<>>
    /\ printed = <<>>
    /\ PathIdle
    /\ WriteIdle
    /\ WrapIdle
    /\ ReadIdle /\ CopyIdle /\ JsonIdle /\ RestIdle

\* errors.js 63-70: new SecurityError(message); error.message is the
\* sanitized text
NewSecurityError ==
    /\ errorMessage = <<>>
    /\ errorMessage' = sanitizeErrorMessage(message)
    /\ UNCHANGED <<message, printed>>
    /\ UNCHANGED <<pathVars, writeVars, wrapVars, readVars, copyVars, jsonVars, restVars>>

\* errors.js 169-170: console.error('Security violation:', error.message)
HandleError ==
    /\ errorMessage # <<>>
    /\ printed = <<>>
    /\ printed' = <<"Security violation:", " ">> \o errorMessage
    /\ UNCHANGED <<message, errorMessage>>
    /\ UNCHANGED <<pathVars, writeVars, wrapVars, readVars, copyVars, jsonVars, restVars>>

NextErr ==
    \/ NewSecurityError
    \/ HandleError

SpecErr == InitErr /\ [][NextErr]_vars

\* C13: once the SecurityError is constructed, no absolute path, email
\* address or IPv4 address that the raw message embeds is a substring of
\* error.message or of what handleError prints.
C13_SecurityErrorRedactsPathEmailIp ==
    errorMessage # <<>> =>
        \A lit \in PathItems \cup EmailItems \cup IpItems :
            includes(message, lit) =>
                /\ ~includes(errorMessage, lit)
                /\ ~includes(printed, lit)

-----------------------------------------------------------------------------
(* SpecCopy: one call of secureCopyFile, with a reader of the destination *)

\* the raw source paths: relative, absolute inside cwd, escaping cwd
CopySources == { <<"s">>, Cwd \o <<SLASH, "s">>, <<DOT, DOT, SLASH, "s">> }
\* the raw destination paths: relative, absolute inside cwd
CopyDests == { <<"d">>, Cwd \o <<SLASH, "d">> }

\* path.basename(p): the last non-empty segment of p
basename(p) ==
    LET segs == SelectSeq(Split(p), LAMBDA seg : seg # <<>>)
    IN IF Len(segs) = 0 THEN <<>> ELSE segs[Len(segs)]
\* path.dirname(p): p without its last segment
dirname(p) ==
    LET segs == Split(p)
    IN IF Len(segs) <= 1 THEN <<DOT>>
       ELSE IF Len(segs) = 2 /\ segs[1] = <<>> THEN <<SLASH>>
       ELSE Join(SubSeq(segs, 1, Len(segs) - 1))

\* the fixed texts of the errors secureCopyFile constructs
FILE_DOES_NOT_EXIST == <<"F", "i", "l", "e", " ", "d", "o", "e", "s", " ",
                         "n", "o", "t", " ", "e", "x", "i", "s", "t">>
FILE_ALREADY_EXISTS == <<"F", "i", "l", "e", " ", "a", "l", "r", "e", "a", "d", "y",
                         " ", "e", "x", "i", "s", "t", "s">>
PATH_CANNOT_BE_EMPTY == <<"P", "a", "t", "h", " ", "c", "a", "n", "n", "o", "t",
                          " ", "b", "e", " ", "e", "m", "p", "t", "y">>
TRAVERSAL_DETECTED == <<"I", "n", "v", "a", "l", "i", "d", " ", "p", "a", "t", "h", ":", " ",
                        "P", "a", "t", "h", " ", "t", "r", "a", "v", "e", "r", "s", "a", "l",
                        " ", "a", "t", "t", "e", "m", "p", "t", " ",
                        "d", "e", "t", "e", "c", "t", "e", "d">>

\* errors.js 72-85: new ValidationError(field, requirement, value); only the
\* third argument goes through sanitizeErrorMessage
ValidationError(field, requirement, value) ==
    [kind |-> "ValidationError",
     message |-> <<"Invalid", " ", field, ":", " ">> \o requirement
                 \o <<" ", "(", "got", ":", " ">> \o sanitizeErrorMessage(value) \o <<")">>]
\* errors.js 87-96: new PermissionError(operation, filePath)
PermissionError(operation, path) ==
    [kind |-> "PermissionError",
     message |-> <<"Permission denied", ":", " ", "Cannot", " ", operation, " ">>
                 \o (IF path = <<>> THEN <<"file">> ELSE basename(path))]
\* errors.js 98-103: new PathTraversalError(attemptedPath)
PathTraversalError ==
    [kind |-> "PathTraversalError",
     message |-> sanitizeErrorMessage(TRAVERSAL_DETECTED)]
\* an error raised by fs itself
OSError == [kind |-> "OSError", message |-> <<"EIO">>]

\* the error validateSafePath(p) throws (validation.js 84-105)
PathError(p) ==
    IF validateSafePath(p, Cwd).kind = "ValidationError"
        THEN ValidationError("path", p, PATH_CANNOT_BE_EMPTY)
        ELSE PathTraversalError

InitCopy ==
    /\ source \in CopySources
    /\ filePath \in CopyDests
    /\ content \in Contents
    /\ old \in {File(d) : d \in Contents} \cup {NoFile}
    /\ overwrite \in BOOLEAN
    /\ sourceExists \in BOOLEAN
    /\ sourceReadable \in BOOLEAN
    /\ dirExists \in BOOLEAN
    /\ dirWritable \in BOOLEAN
    /\ (~sourceExists => ~sourceReadable)
    /\ (~dirExists => old = NoFile /\ dirWritable)
    /\ fileWritable = TRUE
    /\ files = [n \in Names |-> IF n = Target THEN old ELSE NoFile]
    /\ tmpPath = 0
    /\ written = 0
    /\ wpc = "idle"
    /\ werror = "none"
    /\ observed = old
    /\ cpc = "validate"
    /\ cerror = NoError
    /\ PathIdle
    /\ WrapIdle
    /\ ReadIdle /\ JsonIdle /\ ErrIdle /\ RestIdle

\* throw: the copy ends with an error
CopyThrow(error) ==
    /\ cpc' = "thrown"
    /\ cerror' = error

\* lines 105-106: validateSafePath(source), then validateSafePath(destination)
SCF_Validate ==
    /\ cpc = "validate"
    /\ IF validateSafePath(source, Cwd).kind # "ok" THEN CopyThrow(PathError(source))
       ELSE IF validateSafePath(filePath, Cwd).kind # "ok" THEN CopyThrow(PathError(filePath))
       ELSE cpc' = "checkSource" /\ UNCHANGED cerror
    /\ UNCHANGED <<source, overwrite, sourceExists, sourceReadable>>
    /\ UNCHANGED <<pathVars, writeVars, wrapVars, readVars, jsonVars, errVars, restVars>>

\* lines 109-111: the source must exist
SCF_CheckSource ==
    /\ cpc = "checkSource"
    /\ IF ~sourceExists
           THEN CopyThrow(ValidationError("source", source, FILE_DOES_NOT_EXIST))
           ELSE cpc' = "checkRead" /\ UNCHANGED cerror
    /\ UNCHANGED <<source, overwrite, sourceExists, sourceReadable>>
    /\ UNCHANGED <<pathVars, writeVars, wrapVars, readVars, jsonVars, errVars, restVars>>

\* lines 113-115: the source must be readable
SCF_CheckRead ==
    /\ cpc = "checkRead"
    /\ IF ~sourceReadable
           THEN CopyThrow(PermissionError("read", source))
           ELSE cpc' = "checkDest" /\ UNCHANGED cerror
    /\ UNCHANGED <<source, overwrite, sourceExists, sourceReadable>>
    /\ UNCHANGED <<pathVars, writeVars, wrapVars, readVars, jsonVars, errVars, restVars>>

\* line 118: the destination exists and overwrite was not requested
\* (NeverBlocked: the copy going ahead without the test)
NeverBlocked == FALSE
DestinationBlocked == files[Target] # NoFile /\ ~overwrite

\* lines 118-120: an existing destination needs overwrite
SCF_CheckDest ==
    /\ cpc = "checkDest"
    /\ IF DestinationBlocked
           THEN CopyThrow(ValidationError("destination", filePath, FILE_ALREADY_EXISTS))
           ELSE cpc' = "ensureDir" /\ UNCHANGED cerror
    /\ UNCHANGED <<source, overwrite, sourceExists, sourceReadable>>
    /\ UNCHANGED <<pathVars, writeVars, wrapVars, readVars, jsonVars, errVars, restVars>>

\* lines 122-123: fs.ensureDir(destDir) creates a missing directory or throws
SCF_EnsureDir ==
    /\ cpc = "ensureDir"
    /\ \/ /\ dirExists
          /\ cpc' = "checkDir"
          /\ UNCHANGED <<dirExists, cerror>>
       \/ /\ ~dirExists
          /\ dirExists' = TRUE
          /\ cpc' = "checkDir"
          /\ UNCHANGED cerror
       \/ /\ ~dirExists
          /\ CopyThrow(OSError)
          /\ UNCHANGED dirExists
    /\ UNCHANGED <<filePath, content, old, files, dirWritable, fileWritable,
                   tmpPath, written, wpc, werror, observed>>
    /\ UNCHANGED <<source, overwrite, sourceExists, sourceReadable>>
    /\ UNCHANGED <<pathVars, wrapVars, readVars, jsonVars, errVars, restVars>>

\* lines 125-127: the destination directory must be writable
SCF_CheckDir ==
    /\ cpc = "checkDir"
    /\ IF ~dirWritable
           THEN CopyThrow(PermissionError("write to directory",
                                          dirname(validateSafePath(filePath, Cwd).path)))
           ELSE cpc' = "copy" /\ UNCHANGED cerror
    /\ UNCHANGED <<source, overwrite, sourceExists, sourceReadable>>
    /\ UNCHANGED <<pathVars, writeVars, wrapVars, readVars, jsonVars, errVars, restVars>>

\* line 130, fs.copy: it stats the destination; a missing one is written by
\* fs.copyFile, an existing one is unlinked first when overwrite is set and
\* left alone (the call returning) when it is not
FsCopy_Stat ==
    /\ cpc = "copy"
    /\ cpc' = IF files[Target] = NoFile THEN "copyFile"
              ELSE IF overwrite THEN "unlink"
              ELSE "returned"
    /\ UNCHANGED <<source, overwrite, sourceExists, sourceReadable, cerror>>
    /\ UNCHANGED <<pathVars, writeVars, wrapVars, readVars, jsonVars, errVars, restVars>>

\* fs.copy, overwriting: fs.unlink(dest) removes the old destination, or fails
FsCopy_Unlink ==
    /\ cpc = "unlink"
    /\ \/ /\ files' = [files EXCEPT ![Target] = NoFile]
          /\ cpc' = "copyFile"
          /\ UNCHANGED cerror
       \/ /\ CopyThrow(OSError)
          /\ UNCHANGED files
    /\ UNCHANGED <<filePath, content, old, dirExists, dirWritable, fileWritable,
                   tmpPath, written, wpc, werror, observed>>
    /\ UNCHANGED <<source, overwrite, sourceExists, sourceReadable>>
    /\ UNCHANGED <<pathVars, wrapVars, readVars, jsonVars, errVars, restVars>>

\* fs.copyFile(src, dest) opens (creates, empty) the destination itself, or fails
FsCopy_Open ==
    /\ cpc = "copyFile"
    /\ \/ /\ files' = [files EXCEPT ![Target] = File(<<>>)]
          /\ cpc' = "copying"
          /\ UNCHANGED cerror
       \/ /\ CopyThrow(OSError)
          /\ UNCHANGED files
    /\ UNCHANGED <<filePath, content, old, dirExists, dirWritable, fileWritable,
                   tmpPath, written, wpc, werror, observed>>
    /\ UNCHANGED <<source, overwrite, sourceExists, sourceReadable>>
    /\ UNCHANGED <<pathVars, wrapVars, readVars, jsonVars, errVars, restVars>>

\* fs.copyFile moves the next byte of the source into the destination, or
\* fails; after a failure the partial destination is removed or left behind
FsCopy_Chunk ==
    /\ cpc = "copying"
    /\ written < Len(content)
    /\ \/ /\ files' = [files EXCEPT ![Target] = File(Append(files[Target].data, content[written + 1]))]
          /\ written' = written + 1
          /\ UNCHANGED <<cpc, cerror>>
       \/ /\ CopyThrow(OSError)
          /\ \/ files' = [files EXCEPT ![Target] = NoFile]
             \/ UNCHANGED files
          /\ UNCHANGED written
    /\ UNCHANGED <<filePath, content, old, dirExists, dirWritable, fileWritable,
                   tmpPath, wpc, werror, observed>>
    /\ UNCHANGED <<source, overwrite, sourceExists, sourceReadable>>
    /\ UNCHANGED <<pathVars, wrapVars, readVars, jsonVars, errVars, restVars>>

\* fs.copyFile has moved every byte: fs.copy and secureCopyFile return
FsCopy_Done ==
    /\ cpc = "copying"
    /\ written = Len(content)
    /\ cpc' = "returned"
    /\ UNCHANGED <<source, overwrite, sourceExists, sourceReadable, cerror>>
    /\ UNCHANGED <<pathVars, writeVars, wrapVars, readVars, jsonVars, errVars, restVars>>

\* another process reads the destination
CopyReaderReads ==
    /\ cpc # "idle"
    /\ observed # files[Target]
    /\ observed' = files[Target]
    /\ UNCHANGED <<filePath, content, old, files, dirExists, dirWritable,
                   fileWritable, tmpPath, written, wpc, werror>>
    /\ UNCHANGED <<pathVars, wrapVars, readVars, copyVars, jsonVars, errVars, restVars>>

NextCopy ==
    \/ SCF_Validate
    \/ SCF_CheckSource
    \/ SCF_CheckRead
    \/ SCF_CheckDest
    \/ SCF_EnsureDir
    \/ SCF_CheckDir
    \/ FsCopy_Stat
    \/ FsCopy_Unlink
    \/ FsCopy_Open
    \/ FsCopy_Chunk
    \/ FsCopy_Done
    \/ CopyReaderReads

SpecCopy == InitCopy /\ [][NextCopy]_vars

\* C14: the message of the error a copy ends with holds no absolute path:
\* neither path handed to the call, when absolute, is a substring of it.
C14_NoAbsolutePathInMessage ==
    cpc = "thrown" =>
        \A p \in {source, filePath} :
            isAbsolute(p) => ~includes(cerror.message, p)

C18_CopyIsAtomic ==
    (overwrite /\ old # NoFile) =>
        /\ files[Target] \in {old, File(content)}
        /\ observed \in {old, File(content)}
        /\ cpc = "thrown" => files[Target] = old

-----------------------------------------------------------------------------
(* SpecJSON: secureWriteJSON(filePath, data), then secureReadJSON(filePath) *)

\* JavaScript values: the JSON values, and a reference back to an enclosing
\* object (which makes the value cyclic)
Null == [type |-> "null"]
Bool(b) == [type |-> "boolean", bool |-> b]
Num(n) == [type |-> "number", num |-> n]
Str(c) == [type |-> "string", chars |-> c]
Arr(items) == [type |-> "array", items |-> items]
Obj(members) == [type |-> "object", members |-> members]
BackRef == [type |-> "backref"]

RECURSIVE HasCycle(_)
HasCycle(v) ==
    CASE v.type = "backref" -> TRUE
      [] v.type = "array" -> \E k \in 1..Len(v.items) : HasCycle(v.items[k])
      [] v.type = "object" -> \E k \in 1..Len(v.members) : HasCycle(v.members[k][2])
      [] OTHER -> FALSE

\* options.spaces of secureWriteJSON
Indent == 2
Spaces(n) == [i \in 1..n |-> " "]

DigitChars == <<"0", "1", "2", "3", "4", "5", "6", "7", "8", "9">>
RECURSIVE ToDigits(_)
ToDigits(n) ==
    IF n < 10 THEN <<DigitChars[n + 1]>>
    ELSE ToDigits(n \div 10) \o <<DigitChars[(n % 10) + 1]>>
NumberText(n) == IF n < 0 THEN <<"-">> \o ToDigits(0 - n) ELSE ToDigits(n)

\* JSON.stringify's quoting of one character of a string (Unescaped: the
\* character copied as it is)
Unescaped(c) == <<c>>
EscapeChar(c) ==
    CASE c = "DQUOTE" -> <<BACKSLASH, "DQUOTE">>
      [] c = BACKSLASH -> <<BACKSLASH, BACKSLASH>>
      [] c = "LF" -> <<BACKSLASH, "n">>
      [] c = "CR" -> <<BACKSLASH, "r">>
      [] c = "TAB" -> <<BACKSLASH, "t">>
      [] OTHER -> <<c>>
RECURSIVE EscapeAll(_)
EscapeAll(c) == IF c = <<>> THEN <<>> ELSE EscapeChar(Head(c)) \o EscapeAll(Tail(c))
Quote(c) == <<"DQUOTE">> \o EscapeAll(c) \o <<"DQUOTE">>

\* JSON.stringify(value, null, 2), value at nesting depth ind / Indent
RECURSIVE Stringify(_, _)
RECURSIVE ItemsText(_, _, _)
RECURSIVE MembersText(_, _, _)
ItemsText(items, k, ind) ==
    IF k > Len(items) THEN <<>>
    ELSE (IF k > 1 THEN <<",">> ELSE <<>>) \o <<"LF">> \o Spaces(ind)
         \o Stringify(items[k], ind) \o ItemsText(items, k + 1, ind)
MembersText(members, k, ind) ==
    IF k > Len(members) THEN <<>>
    ELSE (IF k > 1 THEN <<",">> ELSE <<>>) \o <<"LF">> \o Spaces(ind)
         \o Quote(members[k][1]) \o <<":", " ">>
         \o Stringify(members[k][2], ind) \o MembersText(members, k + 1, ind)
Stringify(v, ind) ==
    CASE v.type = "null" -> <<"n", "u", "l", "l">>
      [] v.type = "boolean" -> IF v.bool THEN <<"t", "r", "u", "e">>
                               ELSE <<"f", "a", "l", "s", "e">>
      [] v.type = "number" -> NumberText(v.num)
      [] v.type = "string" -> Quote(v.chars)
      [] v.type = "array" ->
            IF v.items = <<>> THEN <<"[", "]">>
            ELSE <<"[">> \o ItemsText(v.items, 1, ind + Indent)
                 \o <<"LF">> \o Spaces(ind) \o <<"]">>
      [] v.type = "object" ->
            IF v.members = <<>> THEN <<"{", "}">>
            ELSE <<"{">> \o MembersText(v.members, 1, ind + Indent)
                 \o <<"LF">> \o Spaces(ind) \o <<"}">>

\* JSON.parse: a recursive-descent reading of the text; every reader gives
\* [ok, val, next], next being the index after what it read
Whitespace == {" ", "LF", "CR", "TAB"}
Fail == [ok |-> FALSE, val |-> Null, next |-> 0]
Read(v, j) == [ok |-> TRUE, val |-> v, next |-> j]
SkipWs(s, i) == i + RunLen(s, i, Whitespace)
Literal(s, i, word) == SubSeq(s, i, Min(Len(s), i + Len(word) - 1)) = word
DigitVal(c) == CHOOSE d \in 0..9 : DigitChars[d + 1] = c
RECURSIVE DigitsVal(_, _, _)
DigitsVal(s, i, n) == IF n = 0 THEN 0 ELSE 10 * DigitsVal(s, i, n - 1) + DigitVal(s[i + n - 1])
\* an integer: -? (0 | [1-9][0-9]*), not followed by a fraction or an exponent
ParseNumber(s, i) ==
    LET neg == At(s, i) = "-"
        from == IF neg THEN i + 1 ELSE i
        n == RunLen(s, from, Digits)
    IN IF n = 0 \/ (n > 1 /\ s[from] = "0") \/ At(s, from + n) \in {DOT, "e", "E"}
           THEN Fail
           ELSE Read(Num(IF neg THEN 0 - DigitsVal(s, from, n) ELSE DigitsVal(s, from, n)), from + n)
\* the characters of a string, from after its opening quote
RECURSIVE ParseChars(_, _, _)
ParseChars(s, i, acc) ==
    LET c == At(s, i)
        e == At(s, i + 1)
    IN CASE c = "DQUOTE" -> Read(acc, i + 1)
         [] c = BACKSLASH ->
               IF e \in {"DQUOTE", BACKSLASH, SLASH}
                   THEN ParseChars(s, i + 2, Append(acc, e))
               ELSE IF e = "n" THEN ParseChars(s, i + 2, Append(acc, "LF"))
               ELSE IF e = "r" THEN ParseChars(s, i + 2, Append(acc, "CR"))
               ELSE IF e = "t" THEN ParseChars(s, i + 2, Append(acc, "TAB"))
               ELSE Fail
         [] c \in {"none", "LF", "CR", "TAB"} -> Fail
         [] OTHER -> ParseChars(s, i + 1, Append(acc, c))
\* members[key] = value: a repeated key keeps its place and takes the new value
SetMember(members, key, value) ==
    IF \E k \in 1..Len(members) : members[k][1] = key
        THEN [k \in 1..Len(members) |->
                 IF members[k][1] = key THEN <<key, value>> ELSE members[k]]
        ELSE Append(members, <<key, value>>)
RECURSIVE ParseValue(_, _)
RECURSIVE ParseItems(_, _, _)
RECURSIVE ParseMembers(_, _, _)
\* the items of an array, from the start of an item
ParseItems(s, i, acc) ==
    LET item == ParseValue(s, i)
        j == SkipWs(s, item.next)
    IN IF ~item.ok THEN Fail
       ELSE IF At(s, j) = "," THEN ParseItems(s, j + 1, Append(acc, item.val))
       ELSE IF At(s, j) = "]" THEN Read(Arr(Append(acc, item.val)), j + 1)
       ELSE Fail
\* the members of an object, from the start of a member
ParseMembers(s, i, acc) ==
    LET k == SkipWs(s, i)
        key == IF At(s, k) = "DQUOTE" THEN ParseChars(s, k + 1, <<>>) ELSE Fail
        colon == SkipWs(s, key.next)
        value == IF key.ok /\ At(s, colon) = ":" THEN ParseValue(s, colon + 1) ELSE Fail
        j == SkipWs(s, value.next)
    IN IF ~value.ok THEN Fail
       ELSE IF At(s, j) = "," THEN ParseMembers(s, j + 1, SetMember(acc, key.val, value.val))
       ELSE IF At(s, j) = "}" THEN Read(Obj(SetMember(acc, key.val, value.val)), j + 1)
       ELSE Fail
ParseValue(s, i) ==
    LET k == SkipWs(s, i)
        c == At(s, k)
    IN CASE c = "n" -> IF Literal(s, k, <<"n", "u", "l", "l">>) THEN Read(Null, k + 4) ELSE Fail
         [] c = "t" -> IF Literal(s, k, <<"t", "r", "u", "e">>) THEN Read(Bool(TRUE), k + 4) ELSE Fail
         [] c = "f" -> IF Literal(s, k, <<"f", "a", "l", "s", "e">>) THEN Read(Bool(FALSE), k + 5) ELSE Fail
         [] c = "DQUOTE" -> LET str == ParseChars(s, k + 1, <<>>)
                            IN IF str.ok THEN Read(Str(str.val), str.next) ELSE Fail
         [] c = "-" \/ c \in Digits -> ParseNumber(s, k)
         [] c = "[" -> IF At(s, SkipWs(s, k + 1)) = "]"
                           THEN Read(Arr(<<>>), SkipWs(s, k + 1) + 1)
                           ELSE ParseItems(s, k + 1, <<>>)
         [] c = "{" -> IF At(s, SkipWs(s, k + 1)) = "}"
                           THEN Read(Obj(<<>>), SkipWs(s, k + 1) + 1)
                           ELSE ParseMembers(s, k + 1, <<>>)
         [] OTHER -> Fail
\* JSON.parse(text): one value, and nothing but whitespace after it
JSONparse(text) ==
    LET r == ParseValue(text, 1)
    IN IF r.ok /\ SkipWs(text, r.next) = Len(text) + 1 THEN r ELSE Fail

\* the values of the round trip: scalars (among them strings that need
\* escaping and strings of 5 MiB and 10 MiB), arrays and objects of at most
\* MaxItems entries, one level of nesting
MaxItems == 2
Leaves == {Null, Bool(TRUE), Num(1), Str(<<"a">>)}
Scalars == Leaves \cup {Bool(FALSE), Num(0), Num(0 - 1), Num(12), Str(<<>>),
                        Str(<<"DQUOTE">>), Str(<<BACKSLASH>>), Str(<<"LF">>),
                        Str(<<BLOCK>>), Str(<<BLOCK, BLOCK>>)}
Keys == { <<"k">>, <<"DQUOTE">> }
Nested == Leaves \cup {Arr(<<Num(1)>>), Obj(<< <<<<"k">>, Str(<<"a">>)>> >>)}
Arrays == {Arr(items) : items \in UNION {[1..n -> Leaves] : n \in 0..MaxItems}}
Objects ==
    {Obj(members) : members \in
        {m \in UNION {[1..n -> Keys \X Nested] : n \in 0..MaxItems} :
            \A i, j \in 1..Len(m) : m[i][1] = m[j][1] => i = j}}
JsonValues == Scalars \cup Arrays \cup Objects
\* values that refer back to themselves
CyclicValues == { Obj(<< <<<<"k">>, Str(<<"a">>)>>, <<<<"c">>, BackRef>> >>),
                  Arr(<<BackRef>>) }

InitJSON ==
    /\ data \in JsonValues \cup CyclicValues
    /\ filePath \in WritePaths
    /\ content = <<>>
    /\ old \in {NoFile, File(<<"{", "}">>)}
    /\ dirExists \in BOOLEAN
    /\ dirWritable \in BOOLEAN
    /\ fileWritable \in BOOLEAN
    /\ (~dirExists => old = NoFile /\ dirWritable)
    /\ (old = NoFile => fileWritable)
    /\ files = [n \in Names |-> IF n = Target THEN old ELSE NoFile]
    /\ tmpPath = 0
    /\ written = 0
    /\ wpc = "idle"
    /\ werror = "none"
    /\ observed = old
    /\ maxSize \in {DefaultMaxSize, ConfigMaxSize}
    /\ fileReadable = TRUE
    /\ statSize = NoSize
    /\ readCalls = 0
    /\ rdpc = "idle"
    /\ rdResult = NoResult
    /\ jpc = "stringify"
    /\ jResult = [kind |-> "pending", data |-> NoValue]
    /\ PathIdle
    /\ WrapIdle
    /\ CopyIdle /\ ErrIdle /\ RestIdle

\* the round trip ends with an error
JsonThrow(kind) ==
    /\ jpc' = "thrown"
    /\ jResult' = [kind |-> kind, data |-> NoValue]

\* line 190: what the catch around JSON.stringify throws (TypeError: the
\* error of JSON.stringify itself, uncaught)
TypeError == "TypeError"
StringifyError == "ValidationError"

\* lines 186-193: JSON.stringify(data, null, spaces), which throws on a cyclic
\* value, then the call of secureWriteFile(filePath, content)
SWJ_Stringify ==
    /\ jpc = "stringify"
    /\ IF HasCycle(data)
           THEN /\ JsonThrow(StringifyError)
                /\ UNCHANGED <<content, wpc>>
           ELSE /\ content' = Stringify(data, 0)
                /\ wpc' = "validate"
                /\ jpc' = "writing"
                /\ UNCHANGED jResult
    /\ UNCHANGED data
    /\ UNCHANGED <<filePath, old, files, dirExists, dirWritable, fileWritable,
                   tmpPath, written, werror, observed>>
    /\ UNCHANGED <<pathVars, wrapVars, readVars, copyVars, errVars, restVars>>

\* line 193 ends: secureWriteFile has thrown, or it has returned and the
\* caller goes on to secureReadJSON(filePath), which calls secureReadFile
\* (line 171)
SRJ_Call ==
    /\ jpc = "writing"
    /\ wpc \in {"returned", "thrown"}
    /\ IF wpc = "thrown"
           THEN JsonThrow(werror) /\ UNCHANGED rdpc
           ELSE /\ rdpc' = "validate"
                /\ jpc' = "reading"
                /\ UNCHANGED jResult
    /\ UNCHANGED <<data, maxSize, fileReadable, statSize, readCalls, rdResult>>
    /\ UNCHANGED <<pathVars, writeVars, wrapVars, copyVars, errVars, restVars>>

\* lines 173-177: JSON.parse of what secureReadFile returned; an error of
\* secureReadFile passes through
SRJ_Parse ==
    /\ jpc = "reading"
    /\ rdpc \in {"returned", "thrown"}
    /\ IF rdpc = "thrown" THEN JsonThrow(rdResult.kind)
       ELSE LET parsed == JSONparse(rdResult.data)
            IN IF parsed.ok
                   THEN /\ jResult' = [kind |-> "ok", data |-> parsed.val]
                        /\ jpc' = "returned"
                   ELSE JsonThrow("ValidationError")
    /\ UNCHANGED data
    /\ UNCHANGED <<pathVars, writeVars, wrapVars, readVars, copyVars, errVars, restVars>>

NextJSON ==
    \/ SWJ_Stringify
    \/ SWF_Validate
    \/ SWF_EnsureDir
    \/ SWF_CheckDir
    \/ SWF_CheckFile
    \/ SWF_WriteOpen
    \/ SWF_WriteChunk
    \/ SWF_WriteDone
    \/ SWF_Rename
    \/ SWF_Cleanup
    \/ SRJ_Call
    \/ SRF_Validate
    \/ SRF_CheckRead
    \/ SRF_Stat
    \/ SRF_ReadFile
    \/ SRJ_Parse

SpecJSON == InitJSON /\ [][NextJSON]_vars

\* the round trip has come to its end after a write that returned
RoundTripEnded ==
    /\ ~HasCycle(data)
    /\ wpc = "returned"
    /\ jpc \in {"returned", "thrown"}
\* secureReadJSON returned a value deep-equal to the one written
ReadBackEqual ==
    /\ jpc = "returned"
    /\ jResult.kind = "ok"
    /\ jResult.data = data

\* C19 as stated: for every cycle-free JSON value, once secureWriteJSON has
\* returned, secureReadJSON returns a value deep-equal to it.
C19_RoundTripEveryValue == RoundTripEnded => ReadBackEqual

\* C19, amended: the same for every cycle-free JSON value whose serialized
\* text is no larger than the maxSize of the read.
C19_RoundTripWithinCeiling ==
    (RoundTripEnded /\ SizeOf(Stringify(data, 0)) <= maxSize) => ReadBackEqual

\* an object of two members, one of them nested, the other under a key that
\* needs escaping, has come back equal
C19_Witness ==
    /\ RoundTripEnded
    /\ ReadBackEqual
    /\ data.type = "object"
    /\ Len(data.members) = 2
    /\ data.members[1][1] = <<"DQUOTE">>
    /\ data.members[2][2].type = "object"

----------------------------------------------------------------------------
(* SpecInit: initCommand (src/commands/init.js), run after run, on one     *)
(* working directory.  The CLI passes neither options.baseDir nor          *)
(* options.path, so baseDir is process.cwd() and the target is the context *)
(* file of the CLI type.  The secure file operations it awaits are single  *)
(* steps here: each returns or throws, and a write that throws leaves its  *)
(* target as it was (SpecWrite).                                           *)

\* how many runs of initCommand one behaviour holds
MaxRuns == 2
\* longest context file the directory starts with, in symbols
MaxText == 2

\* line 242: '## <shield> GUARDIAN MODE ACTIVE', as two symbols, so that a
\* text can hold a proper prefix of the marker
guardianMarker == <<"##", "GUARDIAN MODE ACTIVE">>
\* the bundled template templates/<targetFilename>; it does not hold the marker
guardianContent == <<"#", "GUARDIAN">>
BlankLine == <<"LF", "LF">>

\* String.prototype.trim
trim(s) ==
    LET keep == {i \in 1..Len(s) : s[i] \notin Whitespace}
    IN IF keep = {} THEN <<>>
       ELSE SubSeq(s, CHOOSE i \in keep : \A j \in keep : i <= j,
                      CHOOSE i \in keep : \A j \in keep : i >= j)

\* where p starts in s, for every occurrence
Positions(s, p) ==
    {i \in 1..(Len(s) - Len(p) + 1) : SubSeq(s, i, i + Len(p) - 1) = p}
\* s.indexOf(p) + 1, for a text that includes p
indexOf(s, p) == CHOOSE i \in Positions(s, p) : \A j \in Positions(s, p) : i <= j
\* (content.match(/<marker>/g) || []).length
Occurrences(s, p) == Cardinality(Positions(s, p))
\* s.substring(0, s.indexOf(p))
Before(s, p) == SubSeq(s, 1, indexOf(s, p) - 1)

\* lines 257-258: the text before the first marker, trimmed
\* (KeepSection: the existing Guardian section left in place)
KeepSection(text) == text
RemoveSection(text) == trim(Before(text, guardianMarker))

\* lines 252-254 and 293-295: if (!options.force) return
\* (NeverReturn: the run going on regardless of force)
NeverReturn(f) == FALSE
MustReturn(f) == ~f

\* lines 220 and 335-337: the whole body is inside try/catch, and the catch
\* is handleError(err, {exit: true}): a throw ends the run
\* (Ignored: the error swallowed, the run going on where it was)
Ignored(next) == next
OnThrow(next) == "exited"

\* lines 272-276 and 307: the two texts initCommand writes
enhancedContent(existing) ==
    existing \o BlankLine \o guardianMarker \o BlankLine \o guardianContent
fullContent == guardianMarker \o BlankLine \o guardianContent

\* cli-detector.js determineCLI: the option if given, else what is
\* installed, Claude first; "none" is null
determineCLI(option, avail) ==
    IF option # "none" THEN option
    ELSE IF ~avail.claude /\ ~avail.gemini THEN "none"
    ELSE IF avail.claude THEN "claude"
    ELSE "gemini"

TextChars == {"p", "LF", "##", "GUARDIAN MODE ACTIVE"}
\* the context files a directory starts with: every short text, and one
\* larger than the 5 MiB the read accepts
Texts == UNION {[1..n -> TextChars] : n \in 0..MaxText} \cup {<<BLOCK, "p">>}
CliChoices ==
    {[option |-> o, available |-> NoneAvailable] : o \in {"claude", "gemini"}}
    \cup {[option |-> "none", available |-> [claude |-> c, gemini |-> g]] :
          c \in BOOLEAN, g \in BOOLEAN}

InitInit ==
    /\ \E c \in CliChoices : cliOption = c.option /\ available = c.available
    /\ contextFile \in {NoFile} \cup {File(t) : t \in Texts}
    /\ markerFile = NoMarker
    /\ startContext = contextFile
    /\ preContext = contextFile
    /\ preMarker = NoMarker
    /\ force = FALSE
    /\ cliType = "none"
    /\ existingContent = <<>>
    /\ ipc = "ready"
    /\ reports = {}
    /\ wrote = <<>>
    /\ runs = 0
    /\ CoreIdle /\ CmdIdle /\ OpsIdle /\ InstallIdle /\ UpdateIdle

Ended == {"returned", "exited", "killed"}
Running == {"pathExists", "read", "absent", "enhance", "create", "marker"}

\* const targetPath = validateSafePath(targetFilename, baseDir) (line 241)
InitTarget == validateSafePath(ContextFilename(cliType), Cwd)

\* a call of the run threw: catch, handleError, process.exit(1)
InitThrow(next) ==
    /\ ipc' = OnThrow(next)
    /\ reports' = reports \cup {"error"}

\* lines 219-241: a run starts; options, CLI type, target path
IC_Start ==
    /\ ipc \in {"ready"} \cup Ended
    /\ runs < MaxRuns
    /\ runs' = runs + 1
    /\ force' \in BOOLEAN
    /\ cliType' = determineCLI(cliOption, available)
    /\ preContext' = contextFile
    /\ preMarker' = markerFile
    /\ existingContent' = <<>>
    /\ wrote' = <<>>
    /\ IF cliType' = "none"
           THEN ipc' = "returned" /\ reports' = {"no CLI"}
       ELSE IF validateSafePath(ContextFilename(cliType'), Cwd).kind = "ok"
           THEN ipc' = "pathExists" /\ reports' = {}
       ELSE ipc' = "exited" /\ reports' = {"error"}
    /\ UNCHANGED <<cliOption, available, contextFile, markerFile, startContext>>
    /\ UNCHANGED <<coreVars, cmdVars, opsVars, instVars, updVars>>

\* line 245: if (await securePathExists(targetPath))
IC_PathExists ==
    /\ ipc = "pathExists"
    /\ ipc' = IF securePathExists(InitTarget.path, contextFile.exists)
                  THEN "read" ELSE "absent"
    /\ UNCHANGED <<force, cliOption, available, cliType, contextFile, markerFile,
                   startContext, preContext, preMarker, existingContent,
                   reports, wrote, runs>>
    /\ UNCHANGED <<coreVars, cmdVars, opsVars, instVars, updVars>>

\* lines 247-259: read the file (5 MiB at most), look for the marker
IC_Read ==
    /\ ipc = "read"
    /\ \E readable \in BOOLEAN :
          IF ~readable \/ SizeExceeds(SizeOf(contextFile.data), ConfigMaxSize)
              THEN InitThrow("enhance") /\ UNCHANGED existingContent
          ELSE IF includes(contextFile.data, guardianMarker)
              THEN IF MustReturn(force)
                       THEN /\ ipc' = "returned"
                            /\ reports' = reports \cup {"already active"}
                            /\ existingContent' = contextFile.data
                       ELSE /\ ipc' = "enhance"
                            /\ reports' = reports \cup {"already active", "reinstalling"}
                            /\ existingContent' = RemoveSection(contextFile.data)
          ELSE /\ ipc' = "enhance"
               /\ existingContent' = contextFile.data
               /\ UNCHANGED reports
    /\ UNCHANGED <<force, cliOption, available, cliType, contextFile, markerFile,
                   startContext, preContext, preMarker, wrote, runs>>
    /\ UNCHANGED <<coreVars, cmdVars, opsVars, instVars, updVars>>

\* lines 261-279: read the template, write existing text + marker + template
IC_Enhance ==
    /\ ipc = "enhance"
    /\ \E written_ \in BOOLEAN :
          IF written_ /\ validateSafePath(InitTarget.path, Cwd).kind = "ok"
              THEN /\ contextFile' = File(enhancedContent(existingContent))
                   /\ wrote' = Append(wrote, "context")
                   /\ reports' = reports \cup {"added"}
                   /\ ipc' = "marker"
              ELSE /\ InitThrow("marker")
                   /\ UNCHANGED <<contextFile, wrote>>
    /\ UNCHANGED <<force, cliOption, available, cliType, markerFile,
                   startContext, preContext, preMarker, existingContent, runs>>
    /\ UNCHANGED <<coreVars, cmdVars, opsVars, instVars, updVars>>

\* lines 281-295: no context file: advice, and the end of the run without force
IC_Absent ==
    /\ ipc = "absent"
    /\ reports' = reports \cup {"not found"}
    /\ ipc' = IF MustReturn(force) THEN "returned" ELSE "create"
    /\ UNCHANGED <<force, cliOption, available, cliType, contextFile, markerFile,
                   startContext, preContext, preMarker, existingContent,
                   wrote, runs>>
    /\ UNCHANGED <<coreVars, cmdVars, opsVars, instVars, updVars>>

\* lines 297-311: read the template, write marker + template
IC_Create ==
    /\ ipc = "create"
    /\ \E written_ \in BOOLEAN :
          IF written_ /\ validateSafePath(InitTarget.path, Cwd).kind = "ok"
              THEN /\ contextFile' = File(fullContent)
                   /\ wrote' = Append(wrote, "context")
                   /\ reports' = reports \cup {"created"}
                   /\ ipc' = "marker"
              ELSE /\ InitThrow("marker")
                   /\ UNCHANGED <<contextFile, wrote>>
    /\ UNCHANGED <<force, cliOption, available, cliType, markerFile,
                   startContext, preContext, preMarker, existingContent, runs>>
    /\ UNCHANGED <<coreVars, cmdVars, opsVars, instVars, updVars>>

\* lines 314-327: the marker record, `enhanced` taken from the disk as it
\* is now, written by secureWriteJSON
IC_WriteMarker ==
    /\ ipc = "marker"
    /\ \E written_ \in BOOLEAN :
          IF written_ /\ validateSafePath(MarkerName, Cwd).kind = "ok"
              THEN /\ markerFile' =
                          [exists |-> TRUE,
                           enhanced |-> securePathExists(InitTarget.path,
                                                         contextFile.exists),
                           initialized |-> runs,
                           cliType |-> cliType]
                   /\ wrote' = Append(wrote, "marker")
                   /\ reports' = reports \cup {"supervision active"}
                   /\ ipc' = "returned"
              ELSE /\ InitThrow("returned")
                   /\ UNCHANGED <<markerFile, wrote>>
    /\ UNCHANGED <<force, cliOption, available, cliType, contextFile,
                   startContext, preContext, preMarker, existingContent, runs>>
    /\ UNCHANGED <<coreVars, cmdVars, opsVars, instVars, updVars>>

\* the process is killed between two steps of a run
IC_Interrupt ==
    /\ ipc \in Running
    /\ ipc' = "killed"
    /\ UNCHANGED <<force, cliOption, available, cliType, contextFile, markerFile,
                   startContext, preContext, preMarker, existingContent,
                   reports, wrote, runs>>
    /\ UNCHANGED <<coreVars, cmdVars, opsVars, instVars, updVars>>

NextInit ==
    \/ IC_Start
    \/ IC_PathExists
    \/ IC_Read
    \/ IC_Enhance
    \/ IC_Absent
    \/ IC_Create
    \/ IC_WriteMarker
    \/ IC_Interrupt

SpecInit == InitInit /\ [][NextInit]_vars

HasMarker(file) == file.exists /\ includes(file.data, guardianMarker)

C22_ForcedCreateRecordsNotEnhanced ==
    (runs > 0 /\ force /\ cliType # "none" /\ ~preContext.exists /\ ipc = "returned") =>
        /\ HasMarker(contextFile)
        /\ markerFile.exists
        /\ markerFile.initialized = runs
        /\ markerFile.enhanced = FALSE

\* C23: a run without force on a directory without context file, once it
\* has returned, has created the context file (marker and template text)
\* and has written the marker record.
C23_InitCreatesContextFile ==
    (runs > 0 /\ ~force /\ cliType # "none" /\ ~preContext.exists /\ ipc = "returned") =>
        /\ contextFile = File(fullContent)
        /\ markerFile.exists
        /\ markerFile.initialized = runs

\* C27: within one run the context file and the marker record are written
\* by two separate writes, in that order: before the first write both are
\* what they were; between the two the context file is the new one and the
\* marker record is still the old one (absent or stale); a marker record
\* this run wrote stands next to a context file this run wrote.
C27_ContextThenMarker ==
    /\ wrote \in {<<>>, <<"context">>, <<"context", "marker">>}
    /\ (wrote = <<>> => contextFile = preContext /\ markerFile = preMarker)
    /\ (wrote = <<"context">> => HasMarker(contextFile) /\ markerFile = preMarker)
    /\ (markerFile # preMarker => wrote = <<"context", "marker">>)

\* a forced re-init was killed between its two writes: new context file,
\* stale marker record
C27_Witness ==
    /\ ipc = "killed"
    /\ wrote = <<"context">>
    /\ contextFile # preContext
    /\ preMarker.exists
    /\ markerFile = preMarker

\* the directory started without context file, or with one without marker
StartedClean == ~HasMarker(startContext)
\* what stands before the first marker of a file, up to surrounding whitespace
Preamble(file) == trim(Before(file.data, guardianMarker))

----------------------------------------------------------------------------
(* SpecCmd: validateCommand (src/utils/validation.js) on every short       *)
(* command, character by character                                        *)

\* longest command fed to validateCommand
MaxCmd == 2

Threw(kind) == [kind |-> kind, value |-> <<>>]
Gave(v) == [kind |-> "ok", value |-> v]

\* lines 151-171
validateCommand(command_) ==
    IF command_ = <<>> \/ ~isString(command_)
        THEN Threw("ValidationError")
    ELSE IF \E c \in LineBreaks : includes(command_, <<c>>)
        THEN Threw("CommandInjectionError")
    ELSE IF \E c \in dangerousChars : includes(command_, <<c>>)
        THEN Threw("CommandInjectionError")
    ELSE Gave(command_)

\* the characters commands are made of: two harmless ones, the shell
\* metacharacters and brackets, the line breaks
CommandChars ==
    {"a", " ", "|", ";", "&", "$", BACKTICK, ">", "<", "(", ")", "{", "}",
     "[", "]", "LF", "CR"}
Commands == UNION {[1..n -> CommandChars] : n \in 0..MaxCmd} \cup {NonString}

InitCmd ==
    /\ command \in Commands
    /\ cmdResult = NoOutcome
    /\ CoreIdle /\ InitIdle /\ OpsIdle /\ InstallIdle /\ UpdateIdle

CallValidateCommand ==
    /\ cmdResult = NoOutcome
    /\ cmdResult' = validateCommand(command)
    /\ UNCHANGED <<command, coreVars, initVars, opsVars, instVars, updVars>>

NextCmd == CallValidateCommand

SpecCmd == InitCmd /\ [][NextCmd]_vars

\* the characters the claim lists, written out
C24_Listed ==
    {"|", ";", "&", "$", BACKTICK, ">", "<", "(", ")", "{", "}", "[", "]",
     "LF", "CR"}

\* C24: validateCommand throws ValidationError for an empty or non-string
\* input; for a non-empty string it throws CommandInjectionError when one
\* of the listed characters occurs in it, and returns the very string
\* otherwise.
C24_CommandRejectedOrUnchanged ==
    cmdResult # NoOutcome =>
        IF command = <<>> \/ command = NonString
            THEN cmdResult.kind = "ValidationError"
        ELSE IF \E i \in 1..Len(command) : command[i] \in C24_Listed
            THEN cmdResult.kind = "CommandInjectionError"
        ELSE cmdResult = [kind |-> "ok", value |-> command]

\* a command with a closing bracket after an ordinary character was thrown out
C24_Witness ==
    /\ command = <<"a", "]">>
    /\ cmdResult.kind = "CommandInjectionError"

----------------------------------------------------------------------------
(* SpecOps: one call of one secure file operation (utils/file-security.js) *)
(* on an arbitrary path argument, with the filesystem calls it makes       *)

\* longest path argument handed to an operation
MaxOpsLen == 4

Operations ==
    {"readFile", "writeFile", "copyFile", "createDir", "getStats", "readDir",
     "pathExists"}

\* validateSafePath on an argument of any type: path.resolve throws
\* TypeError for a (truthy) value that is no string
validateArg(p, base) ==
    IF ~isString(p) THEN Thrown("TypeError") ELSE validateSafePath(p, base)

\* every operation calls validateSafePath(filePath) with one argument: the
\* base is the default of validation.js line 81, process.cwd()
\* (CallerBase: the base the caller resolved the path against)
CallerBase(base) == base
ValidationBase(base) == Cwd

\* securePathExists lines 159-164: the catch turns any error of the
\* validation into `false`
\* (Propagated: the error passed on to the caller)
Propagated(kind) == [kind |-> kind, value |-> FALSE]
CaughtAsAbsent(kind) == [kind |-> "ok", value |-> FALSE]

OpThrew(kind) == [kind |-> kind, value |-> FALSE]
OpGave(v) == [kind |-> "ok", value |-> v]
Call(name, arg) == [call |-> name, arg |-> arg]

OpsChars == {"a", "b", SLASH, DOT}
\* every short path, a name followed by each blacklisted character, and a
\* value that is no string
OpsPaths ==
    UNION {[1..n -> OpsChars] : n \in 0..MaxOpsLen}
    \cup {<<"a", c>> : c \in SpecialChars}
    \cup {NonString}
OpsSources == {<<"a">>, <<DOT, DOT, SLASH, "a">>}
OpsBases == {Cwd, <<SLASH, "b">>}

InitOps ==
    /\ op \in Operations
    /\ opPath \in OpsPaths
    /\ opSource \in IF op = "copyFile" THEN OpsSources ELSE {<<>>}
    /\ callerBase \in OpsBases
    /\ pathOnDisk \in BOOLEAN
    /\ permitted \in BOOLEAN
    /\ fsCalls = <<>>
    /\ opResult = [kind |-> "pending", value |-> FALSE]
    /\ CoreIdle /\ InitIdle /\ CmdIdle /\ InstallIdle /\ UpdateIdle

OpsFrame ==
    UNCHANGED <<op, opPath, opSource, callerBase, pathOnDisk, permitted,
                coreVars, initVars, cmdVars, instVars, updVars>>

OpPending(name) == op = name /\ opResult.kind = "pending"
OpEnds(calls_, result) == fsCalls' = calls_ /\ opResult' = result

\* secureReadFile, lines 30-52
SecureReadFile ==
    /\ OpPending("readFile")
    /\ LET safePath == validateArg(opPath, ValidationBase(callerBase))
           access == Call("access", opPath)
           stat == Call("stat", opPath)
           readFile == Call("readFile", opPath)
       IN IF safePath.kind # "ok" THEN OpEnds(<<>>, OpThrew(safePath.kind))
          ELSE IF ~(permitted /\ pathOnDisk)
              THEN OpEnds(<<access>>, OpThrew("PermissionError"))
          ELSE \/ OpEnds(<<access, stat>>, OpThrew("SecurityError"))
               \/ OpEnds(<<access, stat, readFile>>, OpGave(TRUE))
    /\ OpsFrame

\* secureWriteFile, lines 56-96
SecureWriteFile ==
    /\ OpPending("writeFile")
    /\ LET safePath == validateArg(opPath, ValidationBase(callerBase))
           probes == <<Call("ensureDir", opPath), Call("access", opPath)>>
           writes == <<Call("pathExists", opPath), Call("writeFile", opPath),
                       Call("rename", opPath)>>
       IN IF safePath.kind # "ok" THEN OpEnds(<<>>, OpThrew(safePath.kind))
          ELSE IF ~permitted THEN OpEnds(probes, OpThrew("PermissionError"))
          ELSE OpEnds(probes \o writes, OpGave(TRUE))
    /\ OpsFrame

\* secureCopyFile, lines 101-131: source first, then destination
SecureCopyFile ==
    /\ OpPending("copyFile")
    /\ LET safeSource == validateArg(opSource, ValidationBase(callerBase))
           safeDestination == validateArg(opPath, ValidationBase(callerBase))
           sourceProbes == <<Call("pathExists", opSource), Call("access", opSource)>>
           destProbe == <<Call("pathExists", opPath)>>
           dirProbes == <<Call("ensureDir", opPath), Call("access", opPath)>>
       IN IF safeSource.kind # "ok" THEN OpEnds(<<>>, OpThrew(safeSource.kind))
          ELSE IF safeDestination.kind # "ok"
              THEN OpEnds(sourceProbes, OpThrew(safeDestination.kind))
          ELSE IF pathOnDisk
              THEN OpEnds(sourceProbes \o destProbe, OpThrew("ValidationError"))
          ELSE IF ~permitted
              THEN OpEnds(sourceProbes \o destProbe \o dirProbes,
                          OpThrew("PermissionError"))
          ELSE OpEnds(sourceProbes \o destProbe \o dirProbes
                          \o <<Call("copy", opSource), Call("copy", opPath)>>,
                      OpGave(TRUE))
    /\ OpsFrame

\* secureCreateDir, lines 135-152
SecureCreateDir ==
    /\ OpPending("createDir")
    /\ LET safePath == validateArg(opPath, ValidationBase(callerBase))
           probes == <<Call("pathExists", opPath), Call("access", opPath)>>
       IN IF safePath.kind # "ok" THEN OpEnds(<<>>, OpThrew(safePath.kind))
          ELSE IF ~permitted THEN OpEnds(probes, OpThrew("PermissionError"))
          ELSE OpEnds(Append(probes, Call("ensureDir", opPath)), OpGave(TRUE))
    /\ OpsFrame

\* securePathExists, lines 157-165
SecurePathExists ==
    /\ OpPending("pathExists")
    /\ LET safePath == validateArg(opPath, ValidationBase(callerBase))
       IN IF safePath.kind # "ok" THEN OpEnds(<<>>, CaughtAsAbsent(safePath.kind))
          ELSE OpEnds(<<Call("pathExists", opPath)>>, OpGave(pathOnDisk))
    /\ OpsFrame

\* secureGetStats, lines 170-178
SecureGetStats ==
    /\ OpPending("getStats")
    /\ LET safePath == validateArg(opPath, ValidationBase(callerBase))
           pathExists == Call("pathExists", opPath)
       IN IF safePath.kind # "ok" THEN OpEnds(<<>>, OpThrew(safePath.kind))
          ELSE IF ~pathOnDisk THEN OpEnds(<<pathExists>>, OpThrew("ValidationError"))
          ELSE OpEnds(<<pathExists, Call("stat", opPath)>>, OpGave(TRUE))
    /\ OpsFrame

\* secureReadDir, lines 183-198
SecureReadDir ==
    /\ OpPending("readDir")
    /\ LET safePath == validateArg(opPath, ValidationBase(callerBase))
           access == Call("access", opPath)
           stat == Call("stat", opPath)
       IN IF safePath.kind # "ok" THEN OpEnds(<<>>, OpThrew(safePath.kind))
          ELSE IF ~(permitted /\ pathOnDisk)
              THEN OpEnds(<<access>>, OpThrew("PermissionError"))
          ELSE \/ OpEnds(<<access, stat>>, OpThrew("ValidationError"))
               \/ OpEnds(<<access, stat, Call("readdir", opPath)>>, OpGave(TRUE))
    /\ OpsFrame

NextOps ==
    \/ SecureReadFile
    \/ SecureWriteFile
    \/ SecureCopyFile
    \/ SecureCreateDir
    \/ SecurePathExists
    \/ SecureGetStats
    \/ SecureReadDir

SpecOps == InitOps /\ [][NextOps]_vars

\* validateSafePath(path, process.cwd()) rejects the argument
RejectedAgainstCwd(p) == validateArg(p, Cwd).kind # "ok"

----------------------------------------------------------------------------
(* SpecInstall: one run of install-wrapper (src/commands/install-wrapper.js, *)
(* the version that serves both CLIs)                                      *)

CLIs == {"claude", "gemini"}
\* where `which` finds the CLIs, and __dirname of install-wrapper.js
CliDir == <<SLASH, "bin">>
CommandsDir == <<SLASH, "pkg", SLASH, "src", SLASH, "commands">>
cliPath(c) == CliDir \o <<SLASH, c>>
\* `${cliName}-original`
BackupName(c) == RealBinary(c)
\* path.join('..', 'wrapper', wrapperName)
wrapperRelativePath(c) ==
    <<DOT, DOT, SLASH, "wrapper", SLASH>>
    \o <<IF c = "claude" THEN "claude-wrapper.js" ELSE "gemini-wrapper.js">>

\* the working directories install-wrapper is run from
InstallCwds == {<<SLASH>>, CliDir, Cwd}
BinNames == CLIs \cup {BackupName(c) : c \in CLIs}

InitInstall ==
    /\ installCwd \in InstallCwds
    /\ found \in [CLIs -> BOOLEAN]
    /\ binWritable \in BOOLEAN
    /\ installForce \in BOOLEAN
    /\ binFiles \in [BinNames -> {"none", "original"}]
    /\ \A c \in CLIs : binFiles[c] = (IF found[c] THEN "original" ELSE "none")
    /\ binStart = binFiles
    /\ current = "none"
    /\ installed = [c \in CLIs |-> FALSE]
    /\ instReports = {}
    /\ instpc = "start"
    /\ CoreIdle /\ InitIdle /\ CmdIdle /\ OpsIdle /\ UpdateIdle

InstallFrame ==
    UNCHANGED <<installCwd, found, binWritable, installForce, binStart,
                coreVars, initVars, cmdVars, opsVars, updVars>>

\* installWrapperForCLI returns: on to the next CLI, or to the summary
IW_Return(flag) ==
    /\ installed' = [installed EXCEPT ![current] = flag]
    /\ current' = IF current = "claude" THEN "gemini" ELSE "none"
    /\ instpc' = IF current = "claude" THEN "which" ELSE "summary"

\* an error that is no PermissionError leaves installWrapperForCLI and
\* installWrapper: handleError(err, {exit: true})
IW_Exit ==
    /\ instpc' = "exited"
    /\ instReports' = instReports \cup {<<"error", current>>}
    /\ UNCHANGED <<installed, current, binFiles>>

\* secureCopyFile(source, destination, {overwrite}) can go through: both
\* paths pass the validation against the working directory, and the
\* destination is free or may be overwritten
CopyAccepted(src_, dest_, over) ==
    /\ validateSafePath(src_, installCwd).kind = "ok"
    /\ validateSafePath(dest_, installCwd).kind = "ok"
    /\ over \/ binFiles[dest_[Len(dest_)]] = "none"

\* lines 77-86: validateOptions, then the first CLI
IW_Begin ==
    /\ instpc = "start"
    /\ current' = "claude"
    /\ instpc' = "which"
    /\ UNCHANGED <<binFiles, installed, instReports>>
    /\ InstallFrame

\* lines 16-31: which, the write permission of its directory
IW_Which ==
    /\ instpc = "which"
    /\ IF ~found[current]
           THEN IW_Return(FALSE) /\ UNCHANGED instReports
       ELSE IF ~binWritable
           THEN /\ IW_Return(FALSE)
                /\ instReports' = instReports \cup {<<"permission denied", current>>}
       ELSE IF validateSafePath(<<BackupName(current)>>, CliDir).kind = "ok"
           THEN /\ instpc' = "backup"
                /\ UNCHANGED <<installed, current, instReports>>
       ELSE IW_Exit
    /\ UNCHANGED binFiles
    /\ InstallFrame

\* lines 33-44: back the original up, unless a backup is there
IW_Backup ==
    /\ instpc = "backup"
    /\ LET backupPath == validateSafePath(<<BackupName(current)>>, CliDir).path
           exists == /\ validateSafePath(backupPath, installCwd).kind = "ok"
                     /\ binFiles[BackupName(current)] # "none"
       IN IF ~exists
              THEN IF CopyAccepted(cliPath(current), backupPath, FALSE)
                       THEN /\ binFiles' = [binFiles EXCEPT ![BackupName(current)] =
                                                binFiles[current]]
                            /\ instReports' = instReports \cup {<<"backing up", current>>}
                            /\ instpc' = "wrapper"
                            /\ UNCHANGED <<installed, current>>
                       ELSE IW_Exit
          ELSE IF ~installForce
              THEN /\ IW_Return(TRUE)
                   /\ instReports' = instReports \cup {<<"backup exists", current>>}
                   /\ UNCHANGED binFiles
          ELSE /\ instpc' = "wrapper"
               /\ UNCHANGED <<binFiles, installed, current, instReports>>
    /\ InstallFrame

\* lines 46-58: resolve the wrapper script next to this file, copy it over
\* the CLI
IW_Wrapper ==
    /\ instpc = "wrapper"
    /\ LET wrapperSource == validateSafePath(wrapperRelativePath(current), CommandsDir)
       IN IF /\ wrapperSource.kind = "ok"
             /\ CopyAccepted(wrapperSource.path, cliPath(current), TRUE)
              THEN /\ binFiles' = [binFiles EXCEPT ![current] = "wrapper"]
                   /\ instReports' = instReports \cup {<<"installed", current>>}
                   /\ IW_Return(TRUE)
              ELSE IW_Exit
    /\ InstallFrame

\* lines 104-127: the summary
IW_Summary ==
    /\ instpc = "summary"
    /\ instpc' = "returned"
    /\ instReports' =
          IF \A c \in CLIs : ~installed[c]
              THEN instReports \cup {<<"none found", "none">>}
              ELSE instReports \cup {<<"wrapped", c>> : c \in {d \in CLIs : installed[d]}}
    /\ UNCHANGED <<binFiles, installed, current>>
    /\ InstallFrame

NextInstall ==
    \/ IW_Begin
    \/ IW_Which
    \/ IW_Backup
    \/ IW_Wrapper
    \/ IW_Summary

SpecInstall == InitInstall /\ [][NextInstall]_vars

\* C26: when a CLI is found, its directory is writable and no backup
\* exists yet, the run ends with the original saved as <cli>-original and
\* the wrapper at the CLI's own path, and the wrapper is reported as
\* installed only in that state.
C26_WrapperInstalledWithBackup ==
    \A c \in CLIs :
        /\ (/\ instpc \in {"returned", "exited"}
            /\ found[c]
            /\ binWritable
            /\ binStart[BackupName(c)] = "none"
            /\ (c = "gemini" => ~found["claude"]))
           => /\ binFiles[BackupName(c)] = "original"
              /\ binFiles[c] = "wrapper"
        /\ (<<"installed", c>> \in instReports \/ <<"wrapped", c>> \in instReports)
           => /\ binFiles[BackupName(c)] = "original"
              /\ binFiles[c] = "wrapper"

----------------------------------------------------------------------------
(* SpecUpdate: checkForUpdates (src/utils/version-check.js), call after    *)
(* call, with time passing and versions being published between calls.    *)
(* The installed version stays the same; the check is not disabled.       *)

\* how many calls of checkForUpdates one behaviour holds
MaxCalls == 3
\* line 18: CHECK_INTERVAL, in hours
CHECK_INTERVAL == 24

\* versions, as <<major, minor, patch>>
Versions == {<<0, 1, 0>>, <<0, 2, 0>>, <<1, 0, 0>>}
\* getCurrentVersion(): the version of package.json
currentVersion == <<0, 1, 0>>

\* lines 113-134: the first part that differs decides
isNewerVersion(current_, latest_) ==
    \E i \in 1..3 :
        /\ latest_[i] > current_[i]
        /\ \A j \in 1..(i - 1) : latest_[j] = current_[j]

InitUpdate ==
    /\ now = 0
    /\ latest \in Versions
    /\ cache = NoCache
    /\ cached = NoCache
    /\ fetched = <<>>
    /\ shown = <<>>
    /\ requests = 0
    /\ calls = 0
    /\ upc = "ready"
    /\ CoreIdle /\ InitIdle /\ CmdIdle /\ OpsIdle /\ InstallIdle

UpdateFrame == UNCHANGED <<coreVars, initVars, cmdVars, opsVars, instVars>>

\* writeCache, lines 54-64: the file is written, or the error is swallowed
writeCache(record) == cache' = record \/ cache' = cache

\* lines 256-273: read the cache (null on any error), then
\* handleCachedCheck, lines 193-211
CU_Start ==
    /\ upc \in {"ready", "returned"}
    /\ calls < MaxCalls
    /\ calls' = calls + 1
    /\ fetched' = <<>>
    /\ \E read \in {cache, NoCache} :
          /\ cached' = read
          /\ IF ~read.exists \/ now - read.lastCheck >= CHECK_INTERVAL
                 THEN upc' = "fetch" /\ UNCHANGED shown
             ELSE IF /\ isNewerVersion(currentVersion, read.latestVersion)
                     /\ read.notified # read.latestVersion
                 THEN /\ shown' = Append(shown, read.latestVersion)
                      /\ upc' = "markNotified"
             ELSE upc' = "returned" /\ UNCHANGED shown
    /\ UNCHANGED <<now, latest, cache, requests>>
    /\ UpdateFrame

\* lines 204-208: mark the cached version as notified
CU_MarkNotified ==
    /\ upc = "markNotified"
    /\ writeCache([cached EXCEPT !.notified = cached.latestVersion])
    /\ upc' = "returned"
    /\ UNCHANGED <<now, latest, cached, fetched, shown, requests, calls>>
    /\ UpdateFrame

\* lines 220-226: ask the registry; no answer ends the call
CU_Fetch ==
    /\ upc = "fetch"
    /\ requests' = requests + 1
    /\ \/ upc' = "returned" /\ UNCHANGED fetched
       \/ upc' = "writeFresh" /\ fetched' = latest
    /\ UNCHANGED <<now, latest, cache, cached, shown, calls>>
    /\ UpdateFrame

\* lines 228-238: record the check, then notify if the version is newer
CU_WriteFresh ==
    /\ upc = "writeFresh"
    /\ writeCache([exists |-> TRUE, lastCheck |-> now, latestVersion |-> fetched,
                   notified |-> cached.notified])
    /\ IF isNewerVersion(currentVersion, fetched)
           THEN shown' = Append(shown, fetched) /\ upc' = "markFresh"
           ELSE upc' = "returned" /\ UNCHANGED shown
    /\ UNCHANGED <<now, latest, cached, fetched, requests, calls>>
    /\ UpdateFrame

\* lines 239-245: mark the fetched version as notified
CU_MarkFresh ==
    /\ upc = "markFresh"
    /\ writeCache([exists |-> TRUE, lastCheck |-> now, latestVersion |-> fetched,
                   notified |-> fetched])
    /\ upc' = "returned"
    /\ UNCHANGED <<now, latest, cached, fetched, shown, requests, calls>>
    /\ UpdateFrame

\* half a day passes between two calls
Tick ==
    /\ upc \in {"ready", "returned"}
    /\ now < CHECK_INTERVAL * MaxCalls
    /\ now' = now + 12
    /\ UNCHANGED <<latest, cache, cached, fetched, shown, requests, calls, upc>>
    /\ UpdateFrame

\* a newer version is published
Publish ==
    /\ \E v \in Versions : isNewerVersion(latest, v) /\ latest' = v
    /\ UNCHANGED <<now, cache, cached, fetched, shown, requests, calls, upc>>
    /\ UpdateFrame

NextUpdate ==
    \/ CU_Start
    \/ CU_MarkNotified
    \/ CU_Fetch
    \/ CU_WriteFresh
    \/ CU_MarkFresh
    \/ Tick
    \/ Publish

SpecUpdate == InitUpdate /\ [][NextUpdate]_vars

\* C30: across the calls, the notification for any one latest version is
\* shown at most once.
C30_NotifiedOncePerVersion ==
    \A v \in Versions : Cardinality({i \in 1..Len(shown) : shown[i] = v}) <= 1

====
